---- MODULE Spec2Model ----
(***************************************************************************)
(* A model of bsondb: the collection document store (Collection), the      *)
(* secondary-index engine (IndexManager), the at-rest codec (Encryption),  *)
(* the database catalog (Database) and the task dispatcher (WorkerManager  *)
(* and WorkerThread).                                                      *)
(*                                                                         *)
(* Specifications:                                                         *)
(*   Spec          one database handle, every Collection / IndexManager    *)
(*                 method taken as one step (operations do not overlap)    *)
(*   SpecEnv       the operations that load the data file, and the data    *)
(*                 file damaged from outside                               *)
(*   SpecConc      insert and find tasks served by worker threads, the     *)
(*                 data-file steps taken one await at a time               *)
(*   SpecDisp      WorkerManager: workers, routing, pending tasks, stop    *)
(*   SpecDispFair  SpecDisp with workers and manager handling their        *)
(*                 messages eventually                                     *)
(*   SpecCodec     Encryption on byte payloads and Database.init's         *)
(*                 self-test                                               *)
(***************************************************************************)
EXTENDS Integers, Sequences, FiniteSets, TLC

(***************************************************************************)
(* Bounds of the model.                                                    *)
(***************************************************************************)
MaxDocs == 2
MaxOid == 1
MaxCallerId == 2
MaxAge == 2
MaxTags == 2
ThreadCount == 2
MaxTasks == 3
MaxPayload == 17

(***************************************************************************)
(* Strings that the code takes apart (index names, field paths) are        *)
(* sequences of one-character strings; strings that are only compared      *)
(* (composite keys, identifier strings) are plain strings.                 *)
(***************************************************************************)
RECURSIVE JoinChars(_, _)
\* Array.prototype.join on an array of strings, with separator sep
JoinChars(parts, sep) ==
    IF Len(parts) = 0 THEN << >>
    ELSE IF Len(parts) = 1 THEN parts[1]
    ELSE parts[1] \o sep \o JoinChars(Tail(parts), sep)

RECURSIVE SplitFrom(_, _, _)
\* String.prototype.split(ch): cur is the part being collected
SplitFrom(s, ch, cur) ==
    IF Len(s) = 0 THEN << cur >>
    ELSE IF Head(s) = ch THEN << cur >> \o SplitFrom(Tail(s), ch, << >>)
    ELSE SplitFrom(Tail(s), ch, Append(cur, Head(s)))

SplitChars(s, ch) == SplitFrom(s, ch, << >>)

RECURSIVE JoinStr(_, _)
\* join on plain strings
JoinStr(parts, sep) ==
    IF Len(parts) = 0 THEN ""
    ELSE IF Len(parts) = 1 THEN parts[1]
    ELSE parts[1] \o sep \o JoinStr(Tail(parts), sep)

F_id == << "_", "i", "d" >>
F_age == << "a", "g", "e" >>
F_tags == << "t", "a", "g", "s" >>

(***************************************************************************)
(* JavaScript values.  A value is << tag, payload >> with payload a        *)
(* sequence of integers: a number, an ObjectId, or an array of numbers;    *)
(* or a string that a concatenation made, its text as the payload.         *)
(* A document is a function from the field names it has to values.         *)
(***************************************************************************)
Num(n) == << "num", << n >> >>
Oid(n) == << "oid", << n >> >>
Arr(s) == << "arr", s >>
Str(s) == << "str", << s >> >>

IsNum(v) == v[1] = "num"
IsArr(v) == v[1] = "arr"
NumOf(v) == v[2][1]

\* JavaScript truthiness of a value
Truthy(v) == IF IsNum(v) THEN NumOf(v) # 0 ELSE TRUE

\* String(value)
StringOf(v) ==
    IF v[1] = "num" THEN ToString(v[2][1])
    ELSE IF v[1] = "oid" THEN "oid" \o ToString(v[2][1])
    ELSE IF v[1] = "str" THEN v[2][1]
    ELSE JoinStr([i \in 1..Len(v[2]) |-> ToString(v[2][i])], ",")

Has(doc, field) == field \in DOMAIN doc

\* doc with field set to v (assignment to a property)
SetField(doc, field, v) == [f \in DOMAIN doc \cup {field} |-> IF f = field THEN v ELSE doc[f]]
\* delete doc[field]
DelField(doc, field) == [f \in DOMAIN doc \ {field} |-> doc[f]]

EmptyObj == [f \in {} |-> Num(0)]

(***************************************************************************)
(* IndexManager: composite keys.                                           *)
(***************************************************************************)
Undef == << "undef", << >> >>

\* one step of getNestedValue's reduce: acc && acc[part]
NestedStep(acc, part, isRoot) ==
    IF isRoot THEN (IF Has(acc, part) THEN acc[part] ELSE Undef)
    ELSE IF acc = Undef THEN Undef
    ELSE IF ~Truthy(acc) THEN acc
    ELSE Undef

RECURSIVE NestedFold(_, _, _)
NestedFold(acc, parts, isRoot) ==
    IF Len(parts) = 0 THEN acc
    ELSE NestedFold(NestedStep(acc, Head(parts), isRoot), Tail(parts), FALSE)

\* getNestedValue(obj, path): path.split('.').reduce(...)
getNestedValue(obj, path) == NestedFold(obj, SplitChars(path, "."), TRUE)

\* getDocumentIndexKey(doc, fields)
getDocumentIndexKey(doc, fields) ==
    JoinStr([i \in 1..Len(fields) |->
                LET value == getNestedValue(doc, fields[i])
                IN  IF value # Undef THEN StringOf(value) ELSE "null"], "::")

\* doc._id.toString()
IdString(doc) == StringOf(doc[F_id])

\* the index name createIndex composes: fieldArray.join('_')
IndexNameOf(fields) == JoinChars(fields, << "_" >>)

(***************************************************************************)
(* Files.  A data file is absent, undecodable ("garbage": a payload that   *)
(* decrypt/deserialize reject, which an empty file also is) or holds a     *)
(* document array.  An index file is undecodable or holds metadata and the *)
(* data map (composite key -> identifier strings).                         *)
(***************************************************************************)
AbsentFile == [kind |-> "absent", documents |-> << >>]
GarbageFile == [kind |-> "garbage", documents |-> << >>]
BsonFile(docs) == [kind |-> "bson", documents |-> docs]

NoMeta == [name |-> << >>, collection |-> "", fields |-> << >>]
EmptyData == [k \in {} |-> << >>]
GarbageIndex == [kind |-> "garbage", metadata |-> NoMeta, data |-> EmptyData]
IndexFile(meta, data) == [kind |-> "bson", metadata |-> meta, data |-> data]

\* indexData.data without id under key (the key dropped when it empties)
DataWithout(data, key, id) ==
    IF key \in DOMAIN data
    THEN IF \A i \in 1..Len(data[key]) : data[key][i] = id
         THEN [k \in DOMAIN data \ {key} |-> data[k]]
         ELSE [data EXCEPT ![key] = SelectSeq(@, LAMBDA x : x # id)]
    ELSE data

\* indexData.data with id under key (pushed unless it is included already)
DataWith(data, key, id) ==
    [k \in DOMAIN data \cup {key} |->
        IF k # key THEN data[k]
        ELSE IF key \notin DOMAIN data THEN << id >>
        ELSE IF \E i \in 1..Len(data[key]) : data[key][i] = id THEN data[key]
        ELSE Append(data[key], id)]

\* the in-memory part of updateFileIndex: remove oldDoc's id under its key
FileIndexRemove(indexData, doc) ==
    [indexData EXCEPT !.data = DataWithout(@,
        getDocumentIndexKey(doc, indexData.metadata.fields), IdString(doc))]

\* the in-memory part of updateFileIndex: add newDoc's id under its key
FileIndexAdd(indexData, doc) ==
    [indexData EXCEPT !.data = DataWith(@,
        getDocumentIndexKey(doc, indexData.metadata.fields), IdString(doc))]

\* whether the try block of updateFileIndex throws a TypeError on _id.toString()
FileIndexThrows(indexData, newDoc, oldDoc, hasOld) ==
    \/ ~Has(newDoc, F_id)
    \/ /\ hasOld
       /\ ~Has(oldDoc, F_id)
       /\ getDocumentIndexKey(oldDoc, indexData.metadata.fields) \in DOMAIN indexData.data

(***************************************************************************)
(* The state the IndexManager and Collection methods read and write, as a  *)
(* record w (the "world"):                                                 *)
(*   dirs   the collection directories that exist under the database path  *)
(*   data   collection -> its data.bson                                    *)
(*   files  collection -> (index name -> its _index_<name>.bson)           *)
(*   rmeta  the cache hash db:<database>:indexes (index name -> metadata)  *)
(*   rsets  the cache sets, as << collection, index name, key, id >>       *)
(*   oids   the number of ObjectIds generated so far                       *)
(*   hung   whether the call being made has entered a loop it never leaves *)
(* and of a Database handle h: conn (indexManager.isConnected) and colls   *)
(* (the names in database.collections).                                    *)
(* Each method is an operator from (w, h, arguments) to the world after it *)
(* and whether it threw; a method's later part, which works on what its    *)
(* earlier part produced, is an operator of its own.                       *)
(***************************************************************************)
NoFiles == [n \in {} |-> GarbageIndex]

\* the index names of the model, in the order directory and hash listings give them
AllIndexNames == << F_id, F_age, F_tags >>

OrderedNames(S) == SelectSeq(AllIndexNames, LAMBDA n : n \in S)

Ret(w, threw) == [w |-> w, threw |-> threw]

\* redisClient.hSet(`db:<database>:indexes`, indexName, JSON.stringify(indexMeta))
hSet(w, indexName, indexMeta) ==
    [w EXCEPT !.rmeta = [n \in DOMAIN @ \cup {indexName} |->
                            IF n = indexName THEN indexMeta ELSE @[n]]]

\* redisClient.sAdd / sRem on the set of one composite key
sAdd(w, c, indexName, key, id) == [w EXCEPT !.rsets = @ \cup {<< c, indexName, key, id >>}]
sRem(w, c, indexName, key, id) == [w EXCEPT !.rsets = @ \ {<< c, indexName, key, id >>}]

\* fs.writeFile / fs.unlink of an index file
writeIndexFile(w, c, indexName, content) ==
    [w EXCEPT !.files[c] = [n \in DOMAIN @ \cup {indexName} |->
                               IF n = indexName THEN content ELSE @[n]]]
unlinkIndexFile(w, c, indexName) ==
    [w EXCEPT !.files[c] = [n \in DOMAIN @ \ {indexName} |-> @[n]]]

IndexFileMissing(w, c, indexName) == c \notin w.dirs \/ indexName \notin DOMAIN w.files[c]

\* Collection.loadData: [] when the file is missing, undecryptable or unparsable
loadData(file) == IF file.kind = "bson" THEN file.documents ELSE << >>

\* Collection.saveData: fs.writeFile of the whole snapshot
saveData(w, c, docs) ==
    IF c \in w.dirs
    THEN Ret([w EXCEPT !.data[c] = BsonFile(docs)], FALSE)
    ELSE Ret(w, TRUE)

RECURSIVE createIndex(_, _, _, _)
RECURSIVE updateIndex(_, _, _, _, _, _)
RECURSIVE updateIndexLoop(_, _, _, _, _, _, _)
RECURSIVE rebuildLoop(_, _, _, _)
RECURSIVE scanIndexFiles(_, _, _, _, _)
RECURSIVE repairIndexFile(_, _, _, _)

\* the rebuild of createIndex never ends: without the cache, updateFileIndex
\* on a stored document that has no _id throws in its try block, its catch
\* calls repairIndexFile, and that calls createIndex, which rebuilds again
RebuildHangs(w, h, c) ==
    /\ ~h.conn
    /\ \E i \in 1..Len(loadData(w.data[c])) : ~Has(loadData(w.data[c])[i], F_id)

\* createIndex, from "Build initial index" on; .hung marks the world of a
\* call that does not return
createIndexBuild(w, h, c) ==
    IF c \notin h.colls THEN Ret(w, FALSE)
    ELSE IF RebuildHangs(w, h, c) THEN Ret([w EXCEPT !.hung = TRUE], FALSE)
    ELSE rebuildLoop(w, h, c, loadData(w.data[c]))

\* createIndex, from "Store in file" on
createIndexFile(w, h, c, indexMeta) ==
    IF c \notin w.dirs THEN Ret(w, TRUE)
    ELSE createIndexBuild(
            writeIndexFile(w, c, indexMeta.name, IndexFile(indexMeta, EmptyData)), h, c)

\* createIndex, from "Store in Redis if available" on
createIndexMeta(w, h, c, indexMeta) ==
    createIndexFile(IF h.conn THEN hSet(w, indexMeta.name, indexMeta) ELSE w,
                    h, c, indexMeta)

\* IndexManager.createIndex(collectionName, fields)
createIndex(w, h, c, fields) ==
    createIndexMeta(w, h, c,
                    [name |-> IndexNameOf(fields), collection |-> c, fields |-> fields])

rebuildNext(r, h, c, docs) == IF r.threw THEN r ELSE rebuildLoop(r.w, h, c, docs)

\* the loop "for (const doc of documents) await updateIndex(collectionName, doc)"
\* of createIndex (and of insertMany)
rebuildLoop(w, h, c, docs) ==
    IF Len(docs) = 0 THEN Ret(w, FALSE)
    ELSE rebuildNext(updateIndex(w, h, c, Head(docs), EmptyObj, FALSE), h, c, Tail(docs))

\* IndexManager.repairIndexFile: unlink, then createIndex with the fields
\* recovered from the file name; every error is caught
repairIndexFile(w, h, c, indexName) ==
    IF IndexFileMissing(w, c, indexName) THEN Ret(w, FALSE)
    ELSE Ret(createIndex(unlinkIndexFile(w, c, indexName), h, c,
                         SplitChars(indexName, "_")).w, FALSE)

\* updateFileIndex on the file's content
updateFileIndexData(w, h, c, indexName, indexData, newDoc, oldDoc, hasOld) ==
    IF indexData.kind # "bson" \/ FileIndexThrows(indexData, newDoc, oldDoc, hasOld)
    THEN repairIndexFile(w, h, c, indexName)
    ELSE Ret(writeIndexFile(w, c, indexName,
                FileIndexAdd(IF hasOld THEN FileIndexRemove(indexData, oldDoc)
                             ELSE indexData, newDoc)), FALSE)

\* IndexManager.updateFileIndex: every error is caught, so it never throws
updateFileIndex(w, h, c, indexName, newDoc, oldDoc, hasOld) ==
    IF IndexFileMissing(w, c, indexName) THEN Ret(w, FALSE)
    ELSE updateFileIndexData(w, h, c, indexName, w.files[c][indexName],
                             newDoc, oldDoc, hasOld)

\* updateIndex's "Remove old document from index", in the cache
cacheRemoveOld(w, h, c, index, oldDoc, hasOld) ==
    IF hasOld /\ h.conn
    THEN sRem(w, c, index.name, getDocumentIndexKey(oldDoc, index.fields), IdString(oldDoc))
    ELSE w

\* updateIndex's "Add new document to index", in the cache
cacheAddNew(w, h, c, index, newDoc) ==
    IF h.conn
    THEN sAdd(w, c, index.name, getDocumentIndexKey(newDoc, index.fields), IdString(newDoc))
    ELSE w

updateIndexRest(r, h, c, indexes, newDoc, oldDoc, hasOld) ==
    updateIndexLoop(r.w, h, c, indexes, newDoc, oldDoc, hasOld)

\* the loop of updateIndex over the indexes; _id.toString() throws a
\* TypeError on a document that has no _id
updateIndexLoop(w, h, c, indexes, newDoc, oldDoc, hasOld) ==
    IF Len(indexes) = 0 THEN Ret(w, FALSE)
    ELSE IF hasOld /\ h.conn /\ ~Has(oldDoc, F_id) THEN Ret(w, TRUE)
    ELSE IF h.conn /\ ~Has(newDoc, F_id)
    THEN Ret(cacheRemoveOld(w, h, c, Head(indexes), oldDoc, hasOld), TRUE)
    ELSE updateIndexRest(
            updateFileIndex(
                cacheAddNew(cacheRemoveOld(w, h, c, Head(indexes), oldDoc, hasOld),
                            h, c, Head(indexes), newDoc),
                h, c, Head(indexes).name, newDoc, oldDoc, hasOld),
            h, c, Tail(indexes), newDoc, oldDoc, hasOld)

\* the entries of the cache hash that name collection c
cacheIndexes(w, c) ==
    [i \in 1..Len(OrderedNames({n \in DOMAIN w.rmeta : w.rmeta[n].collection = c})) |->
        w.rmeta[OrderedNames({n \in DOMAIN w.rmeta : w.rmeta[n].collection = c})[i]]]

Listed(w, indexes) == [w |-> w, indexes |-> indexes]

\* a fallback loop that a file it cannot parse makes lose what it has listed
scanOneStop(w, h, c, n, indexes) ==
    IF IndexFileMissing(w, c, n) THEN Listed(w, indexes)
    ELSE IF w.files[c][n].kind # "bson" THEN Listed(w, << >>)
    ELSE IF w.files[c][n].metadata.collection = c
    THEN Listed(w, Append(indexes, w.files[c][n].metadata))
    ELSE Listed(w, indexes)

\* one index file of getCollectionIndexes' fallback loop
scanOne(w, h, c, n, indexes) ==
    IF IndexFileMissing(w, c, n) THEN Listed(w, indexes)
    ELSE IF w.files[c][n].kind # "bson"
    THEN Listed(repairIndexFile(w, h, c, n).w, indexes)
    ELSE IF w.files[c][n].metadata.collection = c
    THEN Listed(w, Append(indexes, w.files[c][n].metadata))
    ELSE Listed(w, indexes)

scanNext(g, h, c, names) == scanIndexFiles(g.w, h, c, names, g.indexes)

\* the fallback loop of getCollectionIndexes over the files readdir listed
scanIndexFiles(w, h, c, names, indexes) ==
    IF Len(names) = 0 THEN Listed(w, indexes)
    ELSE scanNext(scanOne(w, h, c, Head(names), indexes), h, c, Tail(names))

\* getCollectionIndexes, from "Fallback to file indexes" on
getIndexesFallback(w, h, c, indexes) ==
    IF Len(indexes) # 0 THEN Listed(w, indexes)
    ELSE IF c \notin w.dirs THEN Listed(w, << >>)
    ELSE scanIndexFiles(w, h, c, OrderedNames(DOMAIN w.files[c]), << >>)

\* IndexManager.getCollectionIndexes: the cache first, the index files when
\* the cache gave nothing
getCollectionIndexes(w, h, c) ==
    getIndexesFallback(w, h, c, IF h.conn THEN cacheIndexes(w, c) ELSE << >>)

updateIndexOn(g, h, c, newDoc, oldDoc, hasOld) ==
    updateIndexLoop(g.w, h, c, g.indexes, newDoc, oldDoc, hasOld)

\* IndexManager.updateIndex(collectionName, newDoc, oldDoc)
updateIndex(w, h, c, newDoc, oldDoc, hasOld) ==
    updateIndexOn(getCollectionIndexes(w, h, c), h, c, newDoc, oldDoc, hasOld)

\* removeFromFileIndex on the file's content: every error is caught
removeFromFileIndexData(w, c, indexName, indexData, doc) ==
    IF indexData.kind # "bson" THEN w
    ELSE IF ~Has(doc, F_id)
            /\ getDocumentIndexKey(doc, indexData.metadata.fields) \in DOMAIN indexData.data
    THEN w
    ELSE writeIndexFile(w, c, indexName, FileIndexRemove(indexData, doc))

\* IndexManager.removeFromFileIndex
removeFromFileIndex(w, c, indexName, doc) ==
    IF IndexFileMissing(w, c, indexName) THEN w
    ELSE removeFromFileIndexData(w, c, indexName, w.files[c][indexName], doc)

RECURSIVE removeFromIndexLoop(_, _, _, _, _)
\* the loop of removeFromIndex over the indexes
removeFromIndexLoop(w, h, c, indexes, doc) ==
    IF Len(indexes) = 0 THEN Ret(w, FALSE)
    ELSE IF h.conn /\ ~Has(doc, F_id) THEN Ret(w, TRUE)
    ELSE removeFromIndexLoop(
            removeFromFileIndex(cacheRemoveOld(w, h, c, Head(indexes), doc, TRUE),
                                c, Head(indexes).name, doc),
            h, c, Tail(indexes), doc)

removeFromIndexOn(g, h, c, doc) == removeFromIndexLoop(g.w, h, c, g.indexes, doc)

\* IndexManager.removeFromIndex(collectionName, doc)
removeFromIndex(w, h, c, doc) == removeFromIndexOn(getCollectionIndexes(w, h, c), h, c, doc)

\* redisClient.hDel(`db:<database>:indexes`, indexName)
hDel(w, indexName) == [w EXCEPT !.rmeta = [n \in DOMAIN @ \ {indexName} |-> @[n]]]

\* redisClient.keys(`index:<database>:<collection>:<indexName>:*`) and del of
\* the keys found
delKeys(w, c, indexName) ==
    [w EXCEPT !.rsets = {e \in @ : ~(e[1] = c /\ e[2] = indexName)}]

\* IndexManager.dropIndex(collectionName, fields): the cache entries when
\* connected, then unlink, whose error is swallowed; returns true
dropIndex(w, h, c, fields) ==
    Ret(unlinkIndexFile(IF h.conn
                        THEN delKeys(hDel(w, IndexNameOf(fields)), c, IndexNameOf(fields))
                        ELSE w,
                        c, IndexNameOf(fields)),
        FALSE)

(***************************************************************************)
(* Collection: query matching and update application.                      *)
(* A query is a sequence of << field, condition >>; a condition is         *)
(* << "lit", value >> (a literal) or << operator, value >>.                *)
(* An update is a sequence of << operator, entries >>, entries a sequence  *)
(* of << field, value >>.                                                  *)
(***************************************************************************)
FieldValue(doc, field) == IF Has(doc, field) THEN doc[field] ELSE Undef

\* a === b: numbers by value; arrays and ObjectIds are distinct objects
StrictEq(a, b) == a[1] = "num" /\ b[1] = "num" /\ a = b

\* Collection.matchOperator(fieldValue, operator, value)
matchOperator(fieldValue, operator, value) ==
    CASE operator = "$eq" -> StrictEq(fieldValue, value)
      [] operator = "$ne" -> ~StrictEq(fieldValue, value)
      [] operator = "$gt" -> IsNum(fieldValue) /\ IsNum(value) /\ NumOf(fieldValue) > NumOf(value)
      [] operator = "$gte" -> IsNum(fieldValue) /\ IsNum(value) /\ NumOf(fieldValue) >= NumOf(value)
      [] operator = "$lt" -> IsNum(fieldValue) /\ IsNum(value) /\ NumOf(fieldValue) < NumOf(value)
      [] operator = "$lte" -> IsNum(fieldValue) /\ IsNum(value) /\ NumOf(fieldValue) <= NumOf(value)
      [] operator = "$in" -> IsNum(fieldValue) /\ \E i \in 1..Len(value[2]) :
                                                    value[2][i] = NumOf(fieldValue)
      [] operator = "$nin" -> ~(IsNum(fieldValue) /\ \E i \in 1..Len(value[2]) :
                                                    value[2][i] = NumOf(fieldValue))
      [] OTHER -> FALSE

\* Collection.matchDocument(doc, query). A query is a sequence of << key, cond >>:
\* cond is << "lit", v >> for a primitive v (doc[key] !== v), << op, v >> for the
\* object { op: v }, and << "obj", entries >> for any other object value, entries
\* being its Object.entries
matchDocument(doc, query) ==
    \A i \in 1..Len(query) :
        LET key == query[i][1]
            cond == query[i][2]
        IN  IF cond[1] = "lit"
            THEN StrictEq(FieldValue(doc, key), cond[2])
            ELSE IF cond[1] = "obj"
            THEN \A j \in 1..Len(cond[2]) :
                    matchOperator(FieldValue(doc, key), cond[2][j][1], cond[2][j][2])
            ELSE matchOperator(FieldValue(doc, key), cond[1], cond[2])

\* documents.findIndex(doc => matchDocument(doc, query)), 0 when there is none
FindIndex(docs, query) ==
    IF \E i \in 1..Len(docs) : matchDocument(docs[i], query)
    THEN CHOOSE i \in 1..Len(docs) :
            /\ matchDocument(docs[i], query)
            /\ \A j \in 1..(i - 1) : ~matchDocument(docs[j], query)
    ELSE 0

\* fresh[field]: updated[field] was assigned by this applyUpdate call, so it is
\* no longer the object doc[field] refers to
MarkFresh(fresh, field) == [f \in DOMAIN fresh |-> IF f = field THEN TRUE ELSE fresh[f]]

\* one entry of one operator of applyUpdate, on the pair (updated, doc):
\* updated is the copy { ...doc }, whose arrays are shared with doc
ApplyEntry(p, operator, field, value) ==
    CASE operator = "$set" -> [p EXCEPT !.updated = SetField(@, field, value),
                                        !.fresh = MarkFresh(@, field)]
      [] operator = "$unset" -> [p EXCEPT !.updated = DelField(@, field)]
      [] operator = "$inc" ->
            \* (updated[field] || 0) + amount: a sum on a number or an absent
            \* field, a concatenation of strings on an ObjectId or an array
            [p EXCEPT !.updated = SetField(@, field,
                IF Has(p.updated, field) /\ ~IsNum(p.updated[field])
                THEN Str(StringOf(p.updated[field]) \o ToString(NumOf(value)))
                ELSE Num((IF Has(p.updated, field) THEN NumOf(p.updated[field]) ELSE 0)
                         + NumOf(value))),
                      !.fresh = MarkFresh(@, field)]
      [] operator = "$push" ->
            IF Has(p.updated, field) /\ IsArr(p.updated[field])
            THEN LET pushed == Arr(Append(p.updated[field][2], NumOf(value)))
                     shared == Has(p.doc, field) /\ p.doc[field] = p.updated[field]
                                  /\ ~p.fresh[field]
                 IN  [updated |-> SetField(p.updated, field, pushed),
                      doc |-> IF shared THEN SetField(p.doc, field, pushed) ELSE p.doc,
                      fresh |-> p.fresh]
            ELSE [p EXCEPT !.updated = SetField(@, field, Arr(<< NumOf(value) >>)),
                           !.fresh = MarkFresh(@, field)]
      [] OTHER -> p

RECURSIVE ApplyEntries(_, _, _)
ApplyEntries(p, operator, entries) ==
    IF Len(entries) = 0 THEN p
    ELSE ApplyEntries(ApplyEntry(p, operator, Head(entries)[1], Head(entries)[2]),
                      operator, Tail(entries))

RECURSIVE ApplyOperators(_, _)
ApplyOperators(p, update) ==
    IF Len(update) = 0 THEN p
    ELSE ApplyOperators(ApplyEntries(p, Head(update)[1], Head(update)[2]), Tail(update))

AllFields == {F_id, F_age, F_tags}

\* Collection.applyUpdate(doc, update): .updated is the returned document and
\* .doc is the argument as the call leaves it
applyUpdate(doc, update) ==
    ApplyOperators([updated |-> doc, doc |-> doc, fresh |-> [f \in AllFields |-> FALSE]],
                   update)

(***************************************************************************)
(* Collection: the operations, each from (w, h, collection, arguments) to  *)
(* the world after it, whether it threw, and what it returned.             *)
(***************************************************************************)
Out(w, threw, result) == [w |-> w, threw |-> threw, result |-> result]

\* the identifier assignment at the head of insertOne / insertMany: a new
\* ObjectId when the document has no (truthy) _id
WithId(doc, n) ==
    IF Has(doc, F_id) /\ Truthy(doc[F_id]) THEN doc ELSE SetField(doc, F_id, Oid(n))

NeedsId(doc) == ~(Has(doc, F_id) /\ Truthy(doc[F_id]))

RECURSIVE AssignIds(_, _)
\* insertMany's first loop; n ObjectIds were generated before
AssignIds(docs, n) ==
    IF Len(docs) = 0 THEN << >>
    ELSE IF NeedsId(Head(docs))
    THEN << WithId(Head(docs), n + 1) >> \o AssignIds(Tail(docs), n + 1)
    ELSE << Head(docs) >> \o AssignIds(Tail(docs), n)

CountNeedsId(docs) == Cardinality({i \in 1..Len(docs) : NeedsId(docs[i])})

\* the outcome of a method whose last call returned r
removed(r, result) == Out(r.w, r.threw, result)

\* insertOne / updateOne, after saveData: the index update and the result
indexSaved(s, h, c, newDoc, oldDoc, hasOld) ==
    IF s.threw THEN Out(s.w, TRUE, << >>)
    ELSE removed(updateIndex(s.w, h, c, newDoc, oldDoc, hasOld), << newDoc >>)

\* insertOne, from loadData on, for the document with its identifier
insertOneDoc(w, h, c, doc) ==
    indexSaved(saveData(w, c, Append(loadData(w.data[c]), doc)), h, c, doc, EmptyObj, FALSE)

\* Collection.insertOne(document)
insertOne(w, h, c, document) ==
    insertOneDoc(IF NeedsId(document) THEN [w EXCEPT !.oids = @ + 1] ELSE w,
                 h, c, WithId(document, w.oids + 1))

\* insertMany, after saveData
insertManySaved(s, h, c, docs) ==
    IF s.threw THEN Out(s.w, TRUE, << >>)
    ELSE removed(rebuildLoop(s.w, h, c, docs), docs)

\* insertMany, from loadData on, for the documents with their identifiers
insertManyDocs(w, h, c, docs) ==
    insertManySaved(saveData(w, c, loadData(w.data[c]) \o docs), h, c, docs)

\* Collection.insertMany(documents)
insertMany(w, h, c, documents) ==
    insertManyDocs([w EXCEPT !.oids = @ + CountNeedsId(documents)], h, c,
                   AssignIds(documents, w.oids))

\* the object from an update's $set entries (update.$set), when it has one
HasSet(update) == \E i \in 1..Len(update) : update[i][1] = "$set"

SetEntries(update) == update[CHOOSE j \in 1..Len(update) : update[j][1] = "$set"][2]

ObjectOf(entries) ==
    [f \in {entries[k][1] : k \in 1..Len(entries)} |->
        entries[CHOOSE m \in 1..Len(entries) :
                    /\ entries[m][1] = f
                    /\ \A m2 \in (m + 1)..Len(entries) : entries[m2][1] # f][2]]

SetObject(update) == ObjectOf(SetEntries(update))

\* the keys of an update that are not operators, with their values: they are
\* held in the update under "fields"
PlainEntries(update) ==
    IF \E i \in 1..Len(update) : update[i][1] = "fields"
    THEN update[CHOOSE j \in 1..Len(update) : update[j][1] = "fields"][2]
    ELSE << >>

\* update.$set || update: the document an upsert inserts, for an update that
\* has a $set or has no operator
upsertDocument(update) ==
    IF HasSet(update) THEN SetObject(update) ELSE ObjectOf(PlainEntries(update))

\* updateOne on the matched document, a the result of applyUpdate on it
updateOneApplied(w, h, c, documents, index, a) ==
    indexSaved(saveData(w, c, [documents EXCEPT ![index] = a.updated]),
               h, c, a.updated, a.doc, TRUE)

\* an updateOne that takes no notice of options.upsert
updateOneAtFound(w, h, c, documents, index, update, upsert) ==
    IF index = 0 THEN Out(w, FALSE, << >>)
    ELSE updateOneApplied(w, h, c, documents, index, applyUpdate(documents[index], update))

\* updateOne, after findIndex (index 0: no document matches)
updateOneAt(w, h, c, documents, index, update, upsert) ==
    IF index = 0
    THEN IF upsert THEN insertOne(w, h, c, upsertDocument(update))
         ELSE Out(w, FALSE, << >>)
    ELSE updateOneApplied(w, h, c, documents, index, applyUpdate(documents[index], update))

\* Collection.updateOne(query, update, options)
updateOne(w, h, c, query, update, upsert) ==
    updateOneAt(w, h, c, loadData(w.data[c]), FindIndex(loadData(w.data[c]), query),
                update, upsert)

Looped(w, threw, documents, results) ==
    [w |-> w, threw |-> threw, documents |-> documents, results |-> results]

RECURSIVE updateManyLoop(_, _, _, _, _, _, _, _)

updateManyIndexed(u, h, c, documents, results, query, update, i, a) ==
    IF u.threw THEN Looped(u.w, TRUE, documents, results)
    ELSE updateManyLoop(u.w, h, c, [documents EXCEPT ![i] = a.updated],
                        Append(results, a.updated), query, update, i + 1)

updateManyApplied(w, h, c, documents, results, query, update, i, a) ==
    updateManyIndexed(updateIndex(w, h, c, a.updated, a.doc, TRUE),
                      h, c, documents, results, query, update, i, a)

\* updateMany's loop from position i: documents is the snapshot being
\* rewritten, results the updated documents so far
updateManyLoop(w, h, c, documents, results, query, update, i) ==
    IF i > Len(documents) THEN Looped(w, FALSE, documents, results)
    ELSE IF matchDocument(documents[i], query)
    THEN updateManyApplied(w, h, c, documents, results, query, update, i,
                           applyUpdate(documents[i], update))
    ELSE updateManyLoop(w, h, c, documents, results, query, update, i + 1)

\* updateMany, after its loop
updateManyDone(l, c) ==
    IF l.threw THEN Out(l.w, TRUE, << >>)
    ELSE IF Len(l.results) > 0
    THEN Out(saveData(l.w, c, l.documents).w, saveData(l.w, c, l.documents).threw, l.results)
    ELSE Out(l.w, FALSE, << >>)

\* Collection.updateMany(query, update)
updateMany(w, h, c, query, update) ==
    updateManyDone(updateManyLoop(w, h, c, loadData(w.data[c]), << >>, query, update, 1), c)

\* documents.splice(index, 1)
Splice(docs, index) == SubSeq(docs, 1, index - 1) \o SubSeq(docs, index + 1, Len(docs))

\* deleteOne, after saveData
deleteOneSaved(s, h, c, deleted) ==
    IF s.threw THEN Out(s.w, TRUE, << >>)
    ELSE removed(removeFromIndex(s.w, h, c, deleted), << deleted >>)

\* deleteOne, after findIndex
deleteOneAt(w, h, c, documents, index) ==
    IF index = 0 THEN Out(w, FALSE, << >>)
    ELSE deleteOneSaved(saveData(w, c, Splice(documents, index)), h, c, documents[index])

\* Collection.deleteOne(query)
deleteOne(w, h, c, query) ==
    deleteOneAt(w, h, c, loadData(w.data[c]), FindIndex(loadData(w.data[c]), query))

RECURSIVE deleteManyIndexLoop(_, _, _, _)

deleteManyNext(r, h, c, docs) ==
    IF r.threw THEN r ELSE deleteManyIndexLoop(r.w, h, c, docs)

\* deleteMany's loop "for (const doc of toDelete) await removeFromIndex(...)"
deleteManyIndexLoop(w, h, c, docs) ==
    IF Len(docs) = 0 THEN Ret(w, FALSE)
    ELSE deleteManyNext(removeFromIndex(w, h, c, Head(docs)), h, c, Tail(docs))

\* deleteMany, after saveData
deleteManySaved(s, h, c, toDelete) ==
    IF s.threw THEN Out(s.w, TRUE, << >>)
    ELSE removed(deleteManyIndexLoop(s.w, h, c, toDelete), toDelete)

\* deleteMany, after the split into toDelete and remaining
deleteManySplit(w, h, c, toDelete, remaining) ==
    IF Len(toDelete) > 0 THEN deleteManySaved(saveData(w, c, remaining), h, c, toDelete)
    ELSE Out(w, FALSE, << >>)

\* Collection.deleteMany(query)
deleteMany(w, h, c, query) ==
    deleteManySplit(w, h, c,
                    SelectSeq(loadData(w.data[c]), LAMBDA d : matchDocument(d, query)),
                    SelectSeq(loadData(w.data[c]), LAMBDA d : ~matchDocument(d, query)))

\* a < b of the comparator: numbers by value, ObjectIds by their order of
\* creation; a comparison with undefined is false
Less(a, b) == a[1] = b[1] /\ a[1] \in {"num", "oid"} /\ a[2][1] < b[2][1]

RECURSIVE compareBy(_, _, _)
\* the comparator of sortDocuments over the entries of sort, << field, direction >>
compareBy(a, b, sort) ==
    IF sort = << >> THEN 0
    ELSE IF Less(FieldValue(a, Head(sort)[1]), FieldValue(b, Head(sort)[1]))
         THEN (IF Head(sort)[2] = 1 THEN 0 - 1 ELSE 1)
    ELSE IF Less(FieldValue(b, Head(sort)[1]), FieldValue(a, Head(sort)[1]))
         THEN (IF Head(sort)[2] = 1 THEN 1 ELSE 0 - 1)
    ELSE compareBy(a, b, Tail(sort))

RECURSIVE sortInsert(_, _, _)
\* x placed behind the elements it does not precede (Array.prototype.sort is stable)
sortInsert(sorted, x, sort) ==
    IF sorted = << >> THEN << x >>
    ELSE IF compareBy(x, Head(sorted), sort) < 0 THEN << x >> \o sorted
    ELSE << Head(sorted) >> \o sortInsert(Tail(sorted), x, sort)

RECURSIVE sortFrom(_, _, _)
sortFrom(sorted, rest, sort) ==
    IF rest = << >> THEN sorted
    ELSE sortFrom(sortInsert(sorted, Head(rest), sort), Tail(rest), sort)

\* Collection.sortDocuments(documents, sort)
sortDocuments(documents, sort) == sortFrom(<< >>, documents, sort)

\* results.slice(from) and results.slice(0, n)
SliceFrom(q, from) == SubSeq(q, from + 1, Len(q))
SliceTo(q, n) == SubSeq(q, 1, IF n < Len(q) THEN n ELSE Len(q))

\* find, after the limit: results.slice(options.skip)
findSkip(results, options) ==
    IF options.skip # 0 THEN SliceFrom(results, options.skip) ELSE results

\* find, after the sort: results.slice(0, options.limit), then the skip
findLimit(results, options) ==
    findSkip(IF options.limit # 0 THEN SliceTo(results, options.limit) ELSE results,
             options)

\* find, after the filter: the sort, then the limit, then the skip; an option
\* that is 0 or empty is absent
findShaped(results, options) ==
    findLimit(IF options.sort # << >> THEN sortDocuments(results, options.sort)
              ELSE results,
              options)

NoOptions == [sort |-> << >>, limit |-> 0, skip |-> 0]

\* Collection.find(query, options)
find(file, query, options) ==
    findShaped(SelectSeq(loadData(file), LAMBDA d : matchDocument(d, query)), options)

\* a count that ignores its query
countAll(file, query) == Len(loadData(file))

\* Collection.count(query)
count(file, query) == Len(SelectSeq(loadData(file), LAMBDA d : matchDocument(d, query)))

\* Collection.init, after mkdir: the data file when there is none, then the
\* default index on _id
collectionInitFiles(w, h, c) ==
    createIndex(IF w.data[c].kind = "absent" THEN saveData(w, c, << >>).w ELSE w,
                h, c, << F_id >>)

\* Collection.init()
collectionInit(w, h, c) == collectionInitFiles([w EXCEPT !.dirs = @ \cup {c}], h, c)

\* .made: a Collection object was constructed by the call
Created(r, h, c) ==
    [w |-> r.w, threw |-> r.threw, made |-> TRUE,
     h |-> IF r.threw THEN h ELSE [h EXCEPT !.colls = @ \cup {c}]]

\* a createCollection without the look-up in the registry
createCollectionAnew(w, h, c) == Created(collectionInit(w, h, c), h, c)

\* Database.createCollection(name): .h is the handle after the call; the
\* Collection returned is the registered one unless one was made
createCollection(w, h, c) ==
    IF c \in h.colls THEN [w |-> w, threw |-> FALSE, made |-> FALSE, h |-> h]
    ELSE Created(collectionInit(w, h, c), h, c)

(***************************************************************************)
(* Encryption.  A payload is a sequence of bytes.  The block cipher of      *)
(* 'aes-256-cbc' is stood in for by a keyed byte-wise substitution chained  *)
(* over 16-byte blocks; the framing around it (the IV in front, the PKCS#7  *)
(* padding, the length checks and the catch branches) is the code's.  A     *)
(* fault is the platform's cipher ("cipher") or decipher ("decipher")       *)
(* construction throwing.                                                   *)
(***************************************************************************)
ivLength == 16
blockSize == 16

\* crypto.createHash('sha256').update(String(key)).digest(), as one key byte
Digest(key) == IF key = "k1" THEN 3 ELSE 250

\* new Encryption(key)
Encryption(key) ==
    [enabled |-> key # "" /\ key # "default-encryption-key",
     key |-> IF key # "" /\ key # "default-encryption-key" THEN Digest(key) ELSE 0]

EncBlock(block, prev, k) == [j \in 1..blockSize |-> (block[j] + prev[j] + k) % 256]
DecBlock(block, prev, k) == [j \in 1..blockSize |-> (block[j] + 512 - prev[j] - k) % 256]

RECURSIVE cbcEncrypt(_, _, _)
cbcChained(c, rest, k) == c \o cbcEncrypt(rest, c, k)

\* the blocks of data chained from prev
cbcEncrypt(data, prev, k) ==
    IF data = << >> THEN << >>
    ELSE cbcChained(EncBlock(SubSeq(data, 1, blockSize), prev, k),
                    SubSeq(data, blockSize + 1, Len(data)), k)

RECURSIVE cbcDecrypt(_, _, _)
cbcDecrypt(data, prev, k) ==
    IF data = << >> THEN << >>
    ELSE DecBlock(SubSeq(data, 1, blockSize), prev, k)
         \o cbcDecrypt(SubSeq(data, blockSize + 1, Len(data)),
                       SubSeq(data, 1, blockSize), k)

\* the padding cipher.final() adds: 1..16 bytes, each the number of them
pkcs7Pad(data) ==
    data \o [i \in 1..(blockSize - (Len(data) % blockSize)) |->
                blockSize - (Len(data) % blockSize)]

\* whether decipher.final() accepts the padding of the decrypted blocks
pkcs7Valid(plain) ==
    /\ Len(plain) > 0
    /\ plain[Len(plain)] \in 1..blockSize
    /\ \A i \in (Len(plain) - plain[Len(plain)] + 1)..Len(plain) :
          plain[i] = plain[Len(plain)]

pkcs7Unpad(plain) == SubSeq(plain, 1, Len(plain) - plain[Len(plain)])

Coded(data, failed) == [data |-> data, failed |-> failed, threw |-> FALSE]

\* Encryption.encrypt(data) with the random IV iv: .failed tells that the
\* catch branch was taken; no branch throws
encrypt(e, data, iv, fault) ==
    IF ~e.enabled THEN Coded(data, FALSE)
    ELSE IF fault = "cipher" THEN Coded(data, TRUE)
    ELSE Coded(iv \o cbcEncrypt(pkcs7Pad(data), iv, e.key), FALSE)

\* decrypt, after decipher.update: decipher.final() throws on a length that
\* is no multiple of the block or on a bad padding, and the catch returns
\* encryptedData
decryptFinal(encryptedData, plain) ==
    IF pkcs7Valid(plain) THEN Coded(pkcs7Unpad(plain), FALSE)
    ELSE Coded(encryptedData, TRUE)

\* the mutation of decrypt: the input handed back whatever the mode
decryptAsIs(e, encryptedData, fault) == Coded(encryptedData, FALSE)

\* Encryption.decrypt(encryptedData)
decrypt(e, encryptedData, fault) ==
    IF ~e.enabled THEN Coded(encryptedData, FALSE)
    ELSE IF Len(encryptedData) < ivLength THEN Coded(encryptedData, TRUE)
    ELSE IF fault = "decipher" THEN Coded(encryptedData, TRUE)
    ELSE IF (Len(encryptedData) - ivLength) % blockSize # 0
              \/ Len(encryptedData) = ivLength
         THEN Coded(encryptedData, TRUE)
    ELSE decryptFinal(encryptedData,
                      cbcDecrypt(SubSeq(encryptedData, ivLength + 1, Len(encryptedData)),
                                 SubSeq(encryptedData, 1, ivLength), e.key))

\* a text is a sequence of code points
RECURSIVE utf8Bytes(_)
\* Buffer.from(text, 'utf8')
utf8Bytes(text) ==
    IF text = << >> THEN << >>
    ELSE (IF Head(text) < 128 THEN << Head(text) >>
          ELSE IF Head(text) < 2048
               THEN << 192 + (Head(text) \div 64), 128 + (Head(text) % 64) >>
          ELSE << 224 + (Head(text) \div 4096), 128 + ((Head(text) \div 64) % 64),
                  128 + (Head(text) % 64) >>)
         \o utf8Bytes(Tail(text))

\* buffer.toString('utf8'): the ASCII bytes as they are, the replacement
\* character for a byte that starts no sequence of the payloads used here
utf8String(bytes) == [i \in 1..Len(bytes) |-> IF bytes[i] < 128 THEN bytes[i] ELSE 65533]

RECURSIVE base64(_)
\* buffer.toString('base64'): the sextets, 64 standing for '='
base64(b) ==
    IF Len(b) = 0 THEN << >>
    ELSE IF Len(b) = 1 THEN << b[1] \div 4, (b[1] % 4) * 16, 64, 64 >>
    ELSE IF Len(b) = 2
         THEN << b[1] \div 4, ((b[1] % 4) * 16) + (b[2] \div 16), (b[2] % 16) * 4, 64 >>
    ELSE << b[1] \div 4, ((b[1] % 4) * 16) + (b[2] \div 16),
            ((b[2] % 16) * 4) + (b[3] \div 64), b[3] % 64 >>
         \o base64(SubSeq(b, 4, Len(b)))

RECURSIVE unbase64(_)
\* Buffer.from(text, 'base64')
unbase64(s) ==
    IF Len(s) < 4 THEN << >>
    ELSE IF s[3] = 64 THEN << (s[1] * 4) + (s[2] \div 16) >>
    ELSE IF s[4] = 64
         THEN << (s[1] * 4) + (s[2] \div 16), ((s[2] % 16) * 16) + (s[3] \div 4) >>
    ELSE << (s[1] * 4) + (s[2] \div 16), ((s[2] % 16) * 16) + (s[3] \div 4),
            ((s[3] % 4) * 64) + s[4] >>
         \o unbase64(SubSeq(s, 5, Len(s)))

\* Encryption.encryptText(text)
encryptText(e, text, iv, fault) ==
    IF ~e.enabled THEN text
    ELSE base64(encrypt(e, utf8Bytes(text), iv, fault).data)

\* Encryption.decryptText(encryptedText)
decryptText(e, encryptedText, fault) ==
    IF ~e.enabled THEN encryptedText
    ELSE utf8String(decrypt(e, unbase64(encryptedText), fault).data)

\* 'Hello, BsonDB Encryption Test!'
testData ==
    << 72, 101, 108, 108, 111, 44, 32, 66, 115, 111, 110, 68, 66, 32, 69, 110,
       99, 114, 121, 112, 116, 105, 111, 110, 32, 84, 101, 115, 116, 33 >>

\* Encryption.test(): the mismatch it throws is caught by its own catch, and
\* false comes back
test(e, iv, fault) ==
    IF ~e.enabled THEN TRUE
    ELSE decryptText(e, encryptText(e, testData, iv, fault), fault) = testData

(***************************************************************************)
(* Database.                                                               *)
(***************************************************************************)
Colls == {"users"}

AllColls == << "users" >>

Loaded(w, h) == [w |-> w, h |-> h]

RECURSIVE loadCollectionsFrom(_, _, _)
\* loadCollections, after a collection's init: an error ends the loop (the
\* catch around it only warns), otherwise the collection is registered
loadCollectionsNext(r, h, c, rest) ==
    IF r.threw THEN Loaded(r.w, h)
    ELSE loadCollectionsFrom(r.w, [h EXCEPT !.colls = @ \cup {c}], rest)

loadCollectionsFrom(w, h, names) ==
    IF names = << >> THEN Loaded(w, h)
    ELSE IF Head(names) \in w.dirs
         THEN loadCollectionsNext(collectionInit(w, h, Head(names)), h,
                                  Head(names), Tail(names))
    ELSE loadCollectionsFrom(w, h, Tail(names))

\* Database.loadCollections(): a Collection made and initialised for every
\* directory of the database
loadCollections(w, h) == loadCollectionsFrom(w, h, AllColls)

\* a connect() whose catch leaves the flag set
connectAnyway(h, reachable) == [h EXCEPT !.conn = TRUE]

\* IndexManager.connect(): isConnected is set when createClient and connect()
\* return, and cleared by the catch when they throw
connect(h, reachable) == [h EXCEPT !.conn = reachable]

Initialised(l, isInitialized, threw, passed) ==
    [w |-> l.w, h |-> l.h, isInitialized |-> isInitialized, threw |-> threw,
     test |-> passed]

\* Database.init(): mkdir, indexManager.connect(), loadCollections(), the
\* flag, then encryption.test(), whose result is dropped; .test is what the
\* self-test returned
databaseInit(w, h, e, iv, fault) ==
    Initialised(loadCollections(w, h), TRUE, FALSE, test(e, iv, fault))

(***************************************************************************)
(* State.                                                                  *)
(***************************************************************************)
VARIABLES
    dirs,           \* collection directories on disk
    dataFile,       \* collection -> data.bson
    indexFiles,     \* collection -> (index name -> index file)
    redisIndexes,   \* the cache hash of index metadata
    redisSets,      \* the cache sets of identifier strings
    oidCount,       \* ObjectIds generated so far
    isConnected,    \* indexManager.isConnected of the Database handle
    collections,    \* database.collections (the names registered)
    lastOp,         \* the last operation: its name and whether it threw
    threads,        \* worker id -> the state of its thread
    workers,        \* WorkerManager.workers (the ids in the map)
    taskId,         \* WorkerManager.taskId
    pendingTasks,   \* WorkerManager.pendingTasks (the ids in the map)
    inbox,          \* worker id -> the messages posted to it, not yet handled
    outbox,         \* the messages posted to the manager, not yet handled
    outcome,        \* task id -> how its promise was settled, in order
    stopped,        \* whether stop() has run
    tasks,          \* task id -> the task inside its worker
    committed,      \* the document sequences the data file has held complete
    encryption,     \* database.encryption
    fault,          \* the fault of the platform's cipher, if any
    codecOp,        \* the last call of the codec: input and output
    dbInit,         \* the last Database.init(): flag, outcome, self-test
    queryCall,      \* the last read of a collection: its arguments and result
    indexCall,      \* the last operation and the last change made to an index
                    \* file from outside the database
    redisUp,        \* whether the cache server answers
    dropped,        \* the indexes dropIndex has removed, as << collection, name >>
    routed,         \* the tasks executeTask gave an id, in order: the id, the
                    \* worker it was posted to (-1: run directly) and the
                    \* workers in the map at that moment
    databases,      \* the Database a worker (or a caller) holds: whether it
                    \* has one, and the object
    taskCall,       \* the last task served: its type, where it ran, how it
                    \* was settled, and the Database opened for it alone
    closeCall,      \* the close() calls made on the Database held
    writeCall       \* the write operation in progress, await by await

storeVars == << dirs, dataFile, indexFiles, redisIndexes, redisSets, oidCount,
                isConnected, collections, lastOp >>

dispVars == << threads, workers, taskId, pendingTasks, inbox, outbox, outcome,
               stopped >>

concVars == << tasks, committed >>

codecVars == << encryption, fault, codecOp, dbInit >>

taskVars == << databases, taskCall, closeCall, writeCall >>

histVars == << dropped, routed, taskVars >>

auxVars == << queryCall, indexCall, redisUp, histVars >>

vars == << storeVars, dispVars, concVars, codecVars, auxVars >>

World == [dirs |-> dirs, data |-> dataFile, files |-> indexFiles,
          rmeta |-> redisIndexes, rsets |-> redisSets, oids |-> oidCount,
          hung |-> FALSE]

Handle == [conn |-> isConnected, colls |-> collections]

\* the world after an operation becomes the state
SetWorld(w) ==
    /\ dirs' = w.dirs
    /\ dataFile' = w.data
    /\ indexFiles' = w.files
    /\ redisIndexes' = w.rmeta
    /\ redisSets' = w.rsets
    /\ oidCount' = w.oids

NoMetaHash == [n \in {} |-> NoMeta]

\* the data directory before anything is created in it
EmptyWorld ==
    [dirs |-> {}, data |-> [c \in Colls |-> AbsentFile],
     files |-> [c \in Colls |-> NoFiles], rmeta |-> NoMetaHash, rsets |-> {},
     oids |-> 0, hung |-> FALSE]

\* what the last operation was: its collection, whether it threw, and whether
\* the collection's data file was undecodable when it started
Op(name, c, threw) ==
    [op |-> name, c |-> c, threw |-> threw,
     undecodable |-> c \in Colls /\ dataFile[c].kind = "garbage"]

(***************************************************************************)
(* The inputs drawn for the operations.                                    *)
(***************************************************************************)
DocOf(id, age) ==
    [f \in (IF id = 0 THEN {} ELSE {F_id}) \cup (IF age = 0 THEN {} ELSE {F_age}) |->
        IF f = F_id THEN Num(id) ELSE Num(age)]

\* documents handed to insertOne: with or without a caller-chosen _id
InputDocs == {DocOf(id, age) : id \in 0..MaxCallerId, age \in 1..MaxAge}

Queries == {<< >>} \cup {<< << F_age, << "lit", Num(a) >> >> >> : a \in 1..MaxAge}

Updates == { << << "$set", << << F_age, Num(MaxAge) >> >> >> >>,
             << << "$inc", << << F_age, Num(1) >> >> >> >>,
             << << "$unset", << << F_age, Num(1) >> >> >> >> }

IndexFieldLists == { << F_age >> }

\* the documents handed to insertMany, two at a time
ManyDocs == {DocOf(0, 1), DocOf(1, MaxAge)}

\* the bounds on what the collection may grow to
DocBounded(doc) ==
    /\ Has(doc, F_age) => NumOf(doc[F_age]) <= MaxAge
    /\ Has(doc, F_tags) => Len(doc[F_tags][2]) <= MaxTags

Bounded(w) ==
    /\ w.oids <= MaxOid
    /\ \A c \in Colls :
          /\ Len(loadData(w.data[c])) <= MaxDocs
          /\ \A i \in 1..Len(loadData(w.data[c])) : DocBounded(loadData(w.data[c])[i])

(***************************************************************************)
(* The dispatcher's bounds and the states in which a part of the program   *)
(* has not been used yet.                                                  *)
(***************************************************************************)
WorkerIds == 0..(ThreadCount - 1)

TaskIds == 0..(MaxTasks - 1)

NoTask == [type |-> "", worker |-> 0, pc |-> "none", documents |-> << >>,
           over |-> 0, result |-> << >>, threw |-> FALSE,
           indexes |-> << >>, index |-> GarbageIndex]

NoCodecOp == [op |-> "none", input |-> << >>, encoded |-> << >>, output |-> << >>,
              failed |-> FALSE, threw |-> FALSE]

NoInit == [isInitialized |-> FALSE, threw |-> FALSE, test |-> TRUE]

StoreIdle ==
    /\ dirs = {}
    /\ dataFile = [c \in Colls |-> AbsentFile]
    /\ indexFiles = [c \in Colls |-> NoFiles]
    /\ redisIndexes = NoMetaHash
    /\ redisSets = {}
    /\ oidCount = 0
    /\ collections = {}
    /\ lastOp = Op("init", "", FALSE)

DispIdle ==
    /\ threads = [w \in WorkerIds |-> "none"]
    /\ workers = {}
    /\ taskId = 0
    /\ pendingTasks = {}
    /\ inbox = [w \in WorkerIds |-> << >>]
    /\ outbox = {}
    /\ outcome = [id \in TaskIds |-> << >>]
    /\ stopped = FALSE

ConcIdle ==
    /\ tasks = [id \in TaskIds |-> NoTask]
    /\ committed = {}

CodecIdle ==
    /\ encryption = Encryption("")
    /\ fault = "none"
    /\ codecOp = NoCodecOp
    /\ dbInit = NoInit

\* no read of a collection has been recorded
NoQueryCall == [op |-> "none", query |-> << >>, options |-> NoOptions,
                found |-> << >>, n |-> 0, target |-> 0]

\* no operation and no outside change has been recorded
NoIndexCall == [op |-> "none", threw |-> FALSE, docs |-> << >>, listed |-> << >>,
                event |-> "none", name |-> << >>, file |-> GarbageIndex, since |-> 0,
                steps |-> 0]

\* a Database object as its constructor leaves it; client is what
\* indexManager.redisClient refers to: nothing ("none"), a client that is
\* connected ("open"), one whose connect() failed ("failed"), or one that
\* quit() has closed ("closed")
NewDatabase == [conn |-> FALSE, colls |-> {}, client |-> "none", isInitialized |-> FALSE]

NoDatabases == [has |-> FALSE, d |-> NewDatabase]

NoTaskCall == [type |-> "none", where |-> "none", outcome |-> "none", opened |-> FALSE,
               left |-> NewDatabase, unknown |-> {}, steps |-> 0]

NoCloseCall == [closes |-> 0, threw |-> FALSE, made |-> FALSE, had |-> FALSE, steps |-> 0]

NoWriteCall == [op |-> "none", pc |-> "idle", documents |-> << >>, i |-> 0,
                results |-> << >>, query |-> << >>, update |-> << >>,
                pending |-> << >>, indexed |-> << >>, saved |-> FALSE, threw |-> FALSE,
                before |-> 0, steps |-> 0]

\* nothing has been recorded of the calls made so far
HistIdle ==
    /\ dropped = {}
    /\ routed = << >>
    /\ databases = NoDatabases
    /\ taskCall = NoTaskCall
    /\ closeCall = NoCloseCall
    /\ writeCall = NoWriteCall

CallIdle ==
    /\ queryCall = NoQueryCall
    /\ indexCall = NoIndexCall
    /\ redisUp = isConnected
    /\ HistIdle

(***************************************************************************)
(* Spec: one Database handle on an empty data directory; each operation is *)
(* one step.                                                               *)
(***************************************************************************)
Init ==
    /\ StoreIdle
    /\ isConnected \in BOOLEAN
    /\ DispIdle
    /\ ConcIdle
    /\ CodecIdle
    /\ CallIdle

Apply(name, c, r) ==
    /\ Bounded(r.w)
    /\ SetWorld(r.w)
    /\ lastOp' = Op(name, c, r.threw)
    /\ UNCHANGED << isConnected, collections, dispVars, concVars, codecVars, auxVars >>

CreateCollection ==
    \E c \in Colls :
        LET r == createCollection(World, Handle, c)
        IN  /\ c \notin collections
            /\ SetWorld(r.w)
            /\ collections' = r.h.colls
            /\ lastOp' = Op("createCollection", c, r.threw)
            /\ UNCHANGED << isConnected, dispVars, concVars, codecVars, auxVars >>

InsertOne ==
    \E c \in collections, d \in InputDocs :
        Apply("insertOne", c, insertOne(World, Handle, c, d))

InsertMany ==
    \E c \in collections, d1 \in ManyDocs, d2 \in ManyDocs :
        Apply("insertMany", c, insertMany(World, Handle, c, << d1, d2 >>))

UpdateOne ==
    \E c \in collections, q \in Queries, u \in Updates, upsert \in BOOLEAN :
        /\ upsert => HasSet(u)
        /\ Apply("updateOne", c, updateOne(World, Handle, c, q, u, upsert))

UpdateMany ==
    \E c \in collections, q \in Queries, u \in Updates :
        Apply("updateMany", c, updateMany(World, Handle, c, q, u))

DeleteOne ==
    \E c \in collections, q \in Queries :
        Apply("deleteOne", c, deleteOne(World, Handle, c, q))

DeleteMany ==
    \E c \in collections, q \in Queries :
        Apply("deleteMany", c, deleteMany(World, Handle, c, q))

CreateIndex ==
    \E c \in collections, fields \in IndexFieldLists :
        LET r == createIndex(World, Handle, c, fields)
        IN  Apply("createIndex", c, Out(r.w, r.threw, << >>))

Next ==
    \/ CreateCollection
    \/ InsertOne
    \/ InsertMany
    \/ UpdateOne
    \/ UpdateMany
    \/ DeleteOne
    \/ DeleteMany
    \/ CreateIndex

Spec == Init /\ [][Next]_vars

(***************************************************************************)
(* SpecEnv: the operations that load the data file, and the data file      *)
(* damaged behind the database's back (a partial write, a foreign writer,  *)
(* a change of key).                                                       *)
(***************************************************************************)
\* find and count change nothing; neither has a branch that throws
Find ==
    \E c \in collections, q \in Queries :
        Apply("find", c, Out(World, FALSE, find(dataFile[c], q, NoOptions)))

Count ==
    \E c \in collections, q \in Queries :
        Apply("count", c, Out(World, FALSE, << count(dataFile[c], q) >>))

CorruptDataFile ==
    \E c \in collections :
        /\ dataFile[c].kind = "bson"
        /\ dataFile' = [dataFile EXCEPT ![c] = GarbageFile]
        /\ lastOp' = Op("corrupt", c, FALSE)
        /\ UNCHANGED << dirs, indexFiles, redisIndexes, redisSets, oidCount,
                        isConnected, collections, dispVars, concVars, codecVars, auxVars >>

NextEnv ==
    \/ CreateCollection
    \/ InsertOne
    \/ UpdateOne
    \/ DeleteOne
    \/ Find
    \/ Count
    \/ CorruptDataFile

SpecEnv == Init /\ [][NextEnv]_vars

(***************************************************************************)
(* Properties of the store.                                                *)
(***************************************************************************)
Documents(c) == loadData(dataFile[c])

\* the identifier strings of the documents of c whose composite key under
\* fields is key
IdsWithKey(c, fields, key) ==
    {IdString(Documents(c)[i]) : i \in {j \in 1..Len(Documents(c)) :
        getDocumentIndexKey(Documents(c)[j], fields) = key}}

KeysOf(c, fields) ==
    {getDocumentIndexKey(Documents(c)[i], fields) : i \in 1..Len(Documents(c))}

SeqToSet(q) == {q[i] : i \in 1..Len(q)}

\* an index file lists, under each composite key, exactly the identifiers of
\* the documents of the data file that have the key
FileIndexConsistent(c, n) ==
    LET file == indexFiles[c][n]
    IN  /\ file.kind = "bson"
        /\ DOMAIN file.data = KeysOf(c, file.metadata.fields)
        /\ \A key \in DOMAIN file.data :
              SeqToSet(file.data[key]) = IdsWithKey(c, file.metadata.fields, key)

\* the cache sets of an index hold exactly the same
CacheIndexConsistent(c, n) ==
    \A e \in {x \in redisSets : x[1] = c /\ x[2] = n} \cup
             {<< c, n, key, id >> : key \in KeysOf(c, indexFiles[c][n].metadata.fields),
                                    id \in {IdString(Documents(c)[i]) : i \in 1..Len(Documents(c))}} :
        (e \in redisSets) <=> (e[4] \in IdsWithKey(c, indexFiles[c][n].metadata.fields, e[3]))

\* C2: no two documents of a collection's data file have the same identifier
C2_UniqueIdentifiers ==
    \A c \in Colls :
        \A i, j \in 1..Len(Documents(c)) :
            i # j => Documents(c)[i][F_id] # Documents(c)[j][F_id]

\* C3: between operations every index of a collection maps each composite key
\* to exactly the identifiers of the documents that have it, in the index file
\* and, with the cache connected, in the cache sets
C3_IndexesConsistent ==
    \A c \in collections :
        \A n \in DOMAIN indexFiles[c] :
            /\ FileIndexConsistent(c, n)
            /\ isConnected => CacheIndexConsistent(c, n)

\* the operations that load the data file
LoadingOps == {"insertOne", "insertMany", "updateOne", "updateMany", "deleteOne",
               "deleteMany", "find", "count"}

\* C5: an operation that loads the data file and finds it undecodable throws
\* and leaves the file as it found it
C5_UndecodableIsAnError ==
    (lastOp.undecodable /\ lastOp.op \in LoadingOps)
    => (lastOp.threw /\ dataFile[lastOp.c] = GarbageFile)

(***************************************************************************)
(* SpecDisp: the WorkerManager and its worker threads.  A worker handles a *)
(* message in one step here; what the task does to the store is an input   *)
(* (ok).  A thread is "none", "starting", "running", "errored" (an error    *)
(* was thrown in it and its 'error' event is out) or "exited".             *)
(***************************************************************************)
TaskTypes == {"insert", "find", "bogus"}

KnownTypes == {"connect", "insert", "find", "update", "delete"}

\* start() has created every worker and seen each report ready
StartCompleted == \A w \in WorkerIds : threads[w] \in {"running", "errored", "exited"}

\* a createWorker that puts the worker in the map when it constructs it
CreateWorkerRegistering ==
    \E w \in WorkerIds :
        /\ ThreadCount > 1
        /\ ~stopped
        /\ threads[w] = "none"
        /\ \A v \in WorkerIds : v < w => threads[v] \in {"running", "errored", "exited"}
        /\ threads' = [threads EXCEPT ![w] = "starting"]
        /\ workers' = workers \cup {w}
        /\ UNCHANGED << taskId, pendingTasks, inbox, outbox, outcome,
                        stopped, storeVars, concVars, codecVars, auxVars >>


\* start(): createWorker(i), awaited before the next one is created
CreateWorker ==
    \E w \in WorkerIds :
        /\ ThreadCount > 1
        /\ ~stopped
        /\ threads[w] = "none"
        /\ \A v \in WorkerIds : v < w => threads[v] \in {"running", "errored", "exited"}
        /\ threads' = [threads EXCEPT ![w] = "starting"]
        /\ UNCHANGED << workers, taskId, pendingTasks, inbox, outbox, outcome,
                        stopped, storeVars, concVars, codecVars, auxVars >>

\* the worker's { type: 'ready' } handled by the manager
Ready ==
    \E w \in WorkerIds :
        /\ threads[w] = "starting"
        /\ threads' = [threads EXCEPT ![w] = "running"]
        /\ workers' = workers \cup {w}
        /\ UNCHANGED << taskId, pendingTasks, inbox, outbox, outcome, stopped,
                        storeVars, concVars, codecVars, auxVars >>

\* how executeDirect settles the task
Direct(type, ok) == IF type \in KnownTypes /\ ok THEN "resolved" ELSE "rejected"

\* executeTask(type, data): run directly without workers (no task id is
\* taken); otherwise the id, the worker by id % workers.size, and either the
\* message posted or, with no such worker in the map, run directly
ExecuteTask ==
    \E type \in TaskTypes, ok \in BOOLEAN :
        /\ StartCompleted \/ ThreadCount <= 1
        /\ taskId < MaxTasks
        /\ IF ThreadCount <= 1 \/ workers = {}
           THEN UNCHANGED << taskId, pendingTasks, inbox, outcome, routed >>
           ELSE /\ taskId' = taskId + 1
                /\ routed' = Append(routed,
                       [id |-> taskId,
                        worker |-> IF (taskId % Cardinality(workers)) \in workers
                                   THEN taskId % Cardinality(workers) ELSE -1,
                        live |-> workers])
                /\ IF (taskId % Cardinality(workers)) \in workers
                   THEN /\ pendingTasks' = pendingTasks \cup {taskId}
                        /\ inbox' = [inbox EXCEPT ![taskId % Cardinality(workers)] =
                                        Append(@, [type |-> type, id |-> taskId])]
                        /\ UNCHANGED outcome
                   ELSE /\ outcome' = [outcome EXCEPT ![taskId] =
                                          Append(@, Direct(type, ok))]
                        /\ UNCHANGED << pendingTasks, inbox >>
        /\ UNCHANGED << threads, workers, outbox, stopped, storeVars, concVars,
                        codecVars, queryCall, indexCall, redisUp, dropped, taskVars >>

\* WorkerThread.handleMessage(message): one response or one error posted
HandleMessage ==
    \E w \in WorkerIds, ok \in BOOLEAN :
        /\ threads[w] = "running"
        /\ inbox[w] # << >>
        /\ inbox' = [inbox EXCEPT ![w] = Tail(@)]
        /\ outbox' = outbox \cup
              {[type |-> IF Head(inbox[w]).type \in KnownTypes /\ ok
                         THEN "response" ELSE "error",
                id |-> Head(inbox[w]).id]}
        /\ UNCHANGED << threads, workers, taskId, pendingTasks, outcome, stopped,
                        storeVars, concVars, codecVars, auxVars >>

\* the manager's handler of a 'response' or 'error' message
Message ==
    \E m \in outbox :
        /\ outbox' = outbox \ {m}
        /\ IF m.id \in pendingTasks
           THEN /\ pendingTasks' = pendingTasks \ {m.id}
                /\ outcome' = [outcome EXCEPT ![m.id] =
                       Append(@, IF m.type = "response" THEN "resolved" ELSE "rejected")]
           ELSE UNCHANGED << pendingTasks, outcome >>
        /\ UNCHANGED << threads, workers, taskId, inbox, stopped, storeVars,
                        concVars, codecVars, auxVars >>

\* the 'error' event of a worker: logged; reject() of a createWorker
\* promise that is resolved already does nothing
WorkerError ==
    \E w \in WorkerIds :
        /\ threads[w] = "running"
        /\ threads' = [threads EXCEPT ![w] = "errored"]
        /\ UNCHANGED << workers, taskId, pendingTasks, inbox, outbox, outcome,
                        stopped, storeVars, concVars, codecVars, auxVars >>

\* the 'exit' event of a worker: workers.delete(workerId); what was posted
\* to the thread is gone with it
WorkerExit ==
    \E w \in WorkerIds :
        /\ threads[w] \in {"running", "errored"}
        /\ threads' = [threads EXCEPT ![w] = "exited"]
        /\ workers' = workers \ {w}
        /\ inbox' = [inbox EXCEPT ![w] = << >>]
        /\ UNCHANGED << taskId, pendingTasks, outbox, outcome, stopped, storeVars,
                        concVars, codecVars, auxVars >>

\* stop(): every worker of the map terminated, both maps cleared
Stop ==
    /\ ~stopped
    /\ threads' = [w \in WorkerIds |-> IF w \in workers THEN "exited" ELSE threads[w]]
    /\ inbox' = [w \in WorkerIds |-> IF w \in workers THEN << >> ELSE inbox[w]]
    /\ workers' = {}
    /\ pendingTasks' = {}
    /\ stopped' = TRUE
    /\ UNCHANGED << taskId, outbox, outcome, storeVars, concVars, codecVars, auxVars >>

InitDisp ==
    /\ StoreIdle
    /\ isConnected = FALSE
    /\ DispIdle
    /\ ConcIdle
    /\ CodecIdle
    /\ CallIdle

NextDisp ==
    \/ CreateWorker
    \/ Ready
    \/ ExecuteTask
    \/ HandleMessage
    \/ Message
    \/ WorkerError
    \/ WorkerExit
    \/ Stop

SpecDisp == InitDisp /\ [][NextDisp]_vars

\* a running worker gets to its messages, and the manager to the messages
\* posted to it
SpecDispFair ==
    /\ InitDisp
    /\ [][NextDisp]_vars
    /\ WF_vars(Ready)
    /\ WF_vars(HandleMessage)
    /\ WF_vars(Message)

\* C6: every task handed to a worker is settled (unless stop() intervenes),
\* also when its worker errors or exits, and is settled once only
C6_TaskCompletes ==
    \A id \in TaskIds :
        (id \in pendingTasks) ~> (Len(outcome[id]) = 1 \/ stopped)

\* C7: once stop() has run, every task submitted before it is settled
C7_StopSettlesPending ==
    stopped => \A id \in TaskIds : id < taskId => outcome[id] # << >>

\* the entries i .. i + n - 1 of routed, n the number of workers in the map
\* at entry i, when the map did not change over them
RouteWindow(i) ==
    IF /\ i + Cardinality(routed[i].live) - 1 <= Len(routed)
       /\ \A j \in i..(i + Cardinality(routed[i].live) - 1) :
             routed[j].live = routed[i].live
    THEN i..(i + Cardinality(routed[i].live) - 1)
    ELSE {}

\* C23: over consecutive tasks as many as there are workers in the map, every
\* worker of the map is posted one task, also after a worker has exited; and
\* no two tasks have the same id.
C23_RoundRobin ==
    /\ \A i \in 1..Len(routed) :
          RouteWindow(i) # {} => {routed[j].worker : j \in RouteWindow(i)} = routed[i].live
    /\ \A i, j \in 1..Len(routed) : routed[i].id = routed[j].id => i = j

(***************************************************************************)
(* SpecConc: insert and find tasks on one collection, served by running     *)
(* workers whose Database has the collection registered.  handleMessage is  *)
(* not awaited by the 'message' listener, so the tasks of one worker        *)
(* interleave at their awaits like those of different workers.  A task      *)
(* takes one step per await on the data file: readFile (loadData), the open *)
(* of writeFile, which truncates, and its write; the index update and the   *)
(* response are one step each.                                              *)
(***************************************************************************)
ConcColl == "users"

\* the document task id inserts: identifiers chosen by the callers, all distinct
TaskDoc(id) == DocOf(id + 1, 1)

SeedDoc == DocOf(MaxTasks + 1, 1)

ConcHandle == [conn |-> isConnected, colls |-> Colls]

\* the data directory after createCollection("users"), and after an insertOne
SeedWorlds ==
    { createCollection(EmptyWorld, [conn |-> FALSE, colls |-> {}], ConcColl).w,
      insertOne(createCollection(EmptyWorld, [conn |-> FALSE, colls |-> {}], ConcColl).w,
                [conn |-> FALSE, colls |-> Colls], ConcColl, SeedDoc).w }

InitConc ==
    /\ \E w \in SeedWorlds :
          /\ dirs = w.dirs
          /\ dataFile = w.data
          /\ indexFiles = w.files
          /\ redisIndexes = w.rmeta
          /\ redisSets = w.rsets
          /\ oidCount = w.oids
          /\ committed = {loadData(w.data[ConcColl])}
    /\ isConnected = FALSE
    /\ collections = Colls
    /\ lastOp = Op("init", "", FALSE)
    /\ threads = [w \in WorkerIds |-> "running"]
    /\ workers = WorkerIds
    /\ taskId = 0
    /\ pendingTasks = {}
    /\ inbox = [w \in WorkerIds |-> << >>]
    /\ outbox = {}
    /\ outcome = [id \in TaskIds |-> << >>]
    /\ stopped = FALSE
    /\ tasks = [id \in TaskIds |-> NoTask]
    /\ CodecIdle
    /\ CallIdle

\* handleMessage entered: the switch on the type
StartTask ==
    \E w \in WorkerIds :
        /\ threads[w] = "running"
        /\ inbox[w] # << >>
        /\ inbox' = [inbox EXCEPT ![w] = Tail(@)]
        /\ tasks' = [tasks EXCEPT ![Head(inbox[w]).id] =
               [NoTask EXCEPT !.type = Head(inbox[w]).type, !.worker = w,
                              !.pc = IF Head(inbox[w]).type \in KnownTypes
                                     THEN "loadData" ELSE "respond",
                              !.threw = Head(inbox[w]).type \notin KnownTypes]]
        /\ UNCHANGED << threads, workers, taskId, pendingTasks, outbox, outcome,
                        stopped, committed, storeVars, codecVars, auxVars >>

\* loadData: insertOne pushes its document on what it read; find filters it
LoadData ==
    \E id \in TaskIds :
        /\ tasks[id].pc = "loadData"
        /\ tasks' = [tasks EXCEPT ![id] =
               IF tasks[id].type = "insert"
               THEN [@ EXCEPT !.documents = Append(loadData(dataFile[ConcColl]), TaskDoc(id)),
                              !.pc = "open"]
               ELSE [@ EXCEPT !.result = find(dataFile[ConcColl], << >>, NoOptions),
                              !.pc = "respond"]]
        /\ UNCHANGED << dispVars, committed, storeVars, codecVars, auxVars >>

\* saveData, fs.writeFile's open with flag 'w': the file is truncated
OpenFile ==
    \E id \in TaskIds :
        /\ tasks[id].pc = "open"
        /\ dataFile' = [dataFile EXCEPT ![ConcColl] = GarbageFile]
        /\ tasks' = [tasks EXCEPT ![id] = [@ EXCEPT !.pc = "write", !.over = 0]]
        /\ UNCHANGED << dirs, indexFiles, redisIndexes, redisSets, oidCount,
                        isConnected, collections, lastOp, dispVars, committed,
                        codecVars, auxVars >>

\* saveData, fs.writeFile's write from offset 0: over what another writer
\* has written since this one's truncation; a longer remainder of the other
\* leaves the file undecodable
WriteFile ==
    \E id \in TaskIds :
        /\ tasks[id].pc = "write"
        /\ dataFile' = [dataFile EXCEPT ![ConcColl] =
               IF tasks[id].over > Len(tasks[id].documents) THEN GarbageFile
               ELSE BsonFile(tasks[id].documents)]
        /\ committed' =
               IF tasks[id].over > Len(tasks[id].documents) THEN committed
               ELSE committed \cup {tasks[id].documents}
        /\ tasks' = [t \in TaskIds |->
               IF t = id THEN [tasks[t] EXCEPT !.pc = "updateIndex"]
               ELSE IF tasks[t].pc = "write" /\ tasks[t].over < Len(tasks[id].documents)
                    THEN [tasks[t] EXCEPT !.over = Len(tasks[id].documents)]
               ELSE tasks[t]]
        /\ UNCHANGED << dirs, indexFiles, redisIndexes, redisSets, oidCount,
                        isConnected, collections, lastOp, dispVars, codecVars, auxVars >>

\* insertOne's indexManager.updateIndex(this.name, document)
UpdateIndex ==
    \E id \in TaskIds :
        LET r == updateIndex(World, ConcHandle, ConcColl, TaskDoc(id), TaskDoc(id), FALSE)
        IN  /\ tasks[id].pc = "updateIndex"
            /\ SetWorld(r.w)
            /\ tasks' = [tasks EXCEPT ![id] = [@ EXCEPT !.pc = "respond", !.threw = r.threw]]
            /\ UNCHANGED << isConnected, collections, lastOp, dispVars, committed,
                            codecVars, auxVars >>

\* handleMessage's postMessage of the response, or of the error it caught
Respond ==
    \E id \in TaskIds :
        /\ tasks[id].pc = "respond"
        /\ outbox' = outbox \cup
              {[type |-> IF tasks[id].threw THEN "error" ELSE "response", id |-> id]}
        /\ tasks' = [tasks EXCEPT ![id] = [@ EXCEPT !.pc = "done"]]
        /\ UNCHANGED << threads, workers, taskId, pendingTasks, inbox, outcome,
                        stopped, committed, storeVars, codecVars, auxVars >>

NextConc ==
    \/ ExecuteTask
    \/ StartTask
    \/ LoadData
    \/ OpenFile
    \/ WriteFile
    \/ UpdateIndex
    \/ Respond
    \/ Message

SpecConc == InitConc /\ [][NextConc]_vars

\* the insert tasks submitted so far
InsertTasks == {id \in TaskIds : id < taskId /\ tasks[id].type = "insert"}

\* C1: when every submitted task has been answered with a result, the document
\* of each of the insert tasks is in the data file
C1_AllInsertsPresent ==
    (/\ Cardinality(InsertTasks) >= 2
     /\ \A id \in TaskIds : id < taskId => outcome[id] = << "resolved" >>)
    => \A id \in InsertTasks :
          \E i \in 1..Len(Documents(ConcColl)) :
              Documents(ConcColl)[i][F_id] = TaskDoc(id)[F_id]

\* C4: what a find task read is a document sequence that the data file has
\* held complete, before or after a write
C4_ReadSeesCompleteContent ==
    \A id \in TaskIds :
        (tasks[id].type = "find" /\ tasks[id].pc \in {"respond", "done"})
        => tasks[id].result \in committed

(***************************************************************************)
(* SpecCodec: an Encryption on byte payloads, and Database.init with its    *)
(* self-test.                                                               *)
(***************************************************************************)
KeyInputs == {"", "default-encryption-key", "k1", "k2"}

Faults == {"none", "cipher", "decipher"}

ByteSeeds == {0, 250}

\* the byte payloads: every length up to MaxPayload, over a block and more
Payloads == {[i \in 1..n |-> (b + i) % 256] : n \in 0..MaxPayload, b \in ByteSeeds}

\* crypto.randomBytes(ivLength), two of its values
Ivs == {[i \in 1..ivLength |-> v] : v \in {0, 200}}

\* what a file may hold that no encrypt produced
StoredInputs == {[i \in 1..n |-> 7] : n \in {0, 5, ivLength, 20, 2 * blockSize}}

InitCodec ==
    /\ StoreIdle
    /\ isConnected = FALSE
    /\ DispIdle
    /\ ConcIdle
    /\ encryption \in {Encryption(k) : k \in KeyInputs}
    /\ fault \in Faults
    /\ codecOp = NoCodecOp
    /\ dbInit = NoInit
    /\ CallIdle

CodecCall(op, input, encoded, output, failed, threw) ==
    [op |-> op, input |-> input, encoded |-> encoded, output |-> output,
     failed |-> failed, threw |-> threw]

\* encrypt(payload)
Encrypt ==
    \E p \in Payloads, iv \in Ivs :
        LET r == encrypt(encryption, p, iv, fault)
        IN  /\ codecOp' = CodecCall("encrypt", p, r.data, << >>, r.failed, r.threw)
            /\ UNCHANGED << encryption, fault, dbInit, storeVars, dispVars, concVars,
                            auxVars >>

\* decrypt of what the last encrypt returned
Decrypt ==
    LET r == decrypt(encryption, codecOp.encoded, fault)
    IN  /\ codecOp.op = "encrypt"
        /\ codecOp' = CodecCall("roundtrip", codecOp.input, codecOp.encoded, r.data,
                                codecOp.failed \/ r.failed, codecOp.threw \/ r.threw)
        /\ UNCHANGED << encryption, fault, dbInit, storeVars, dispVars, concVars,
                            auxVars >>

\* decrypt of bytes found in a file
DecryptStored ==
    \E x \in StoredInputs :
        LET r == decrypt(encryption, x, fault)
        IN  /\ codecOp' = CodecCall("decrypt", x, x, r.data, r.failed, r.threw)
            /\ UNCHANGED << encryption, fault, dbInit, storeVars, dispVars, concVars,
                            auxVars >>

\* Database.init() of a database that is not initialised
DatabaseInit ==
    \E iv \in Ivs :
        LET r == databaseInit(World, Handle, encryption, iv, fault)
        IN  /\ ~dbInit.isInitialized
            /\ SetWorld(r.w)
            /\ collections' = r.h.colls
            /\ dbInit' = [isInitialized |-> r.isInitialized, threw |-> r.threw,
                          test |-> r.test]
            /\ UNCHANGED << isConnected, lastOp, encryption, fault, codecOp,
                            dispVars, concVars, auxVars >>

NextCodec ==
    \/ Encrypt
    \/ Decrypt
    \/ DecryptStored
    \/ DatabaseInit

SpecCodec == InitCodec /\ [][NextCodec]_vars

\* C8: with the platform's cipher working, decrypt(encrypt(p)) is p for every
\* byte payload p and every Encryption; with encryption off, encrypt and
\* decrypt hand back their input
C8_RoundTrip ==
    /\ (codecOp.op = "roundtrip" /\ fault = "none") => codecOp.output = codecOp.input
    /\ (~encryption.enabled /\ codecOp.op # "none") =>
          /\ codecOp.encoded = codecOp.input
          /\ codecOp.op # "encrypt" => codecOp.output = codecOp.encoded

\* C8 witness: an active Encryption has taken a payload of exactly one block
\* (the padding adds a block of its own) through encrypt and decrypt
C8_Witness ==
    /\ encryption.enabled
    /\ fault = "none"
    /\ codecOp.op = "roundtrip"
    /\ Len(codecOp.input) = blockSize
    /\ Len(codecOp.encoded) = ivLength + 2 * blockSize
    /\ codecOp.output = codecOp.input

\* C9: with encryption on (and the platform's cipher working), an encrypt or
\* decrypt that could not encode or decode its input has thrown
C9_FailureIsExplicit ==
    (encryption.enabled /\ fault = "none" /\ codecOp.failed) => codecOp.threw

\* C10: a Database.init() whose self-test did not give the test text back
\* has thrown
C10_InitFailsOnMismatch ==
    (dbInit.isInitialized /\ ~dbInit.test) => dbInit.threw


(***************************************************************************)
(* SpecQuery: the reads of a collection that one insertMany has filled.    *)
(* No step writes, so a behaviour is one call of find, findOne, findById   *)
(* or count, recorded in queryCall: a second call would read what the      *)
(* first one read.                                                         *)
(***************************************************************************)
MaxQueryDocs == 3
MaxSkip == 2

QueryColl == "users"

DocWith(id, age, hasTags, tags) ==
    [f \in (IF id = 0 THEN {} ELSE {F_id}) \cup {F_age}
            \cup (IF hasTags THEN {F_tags} ELSE {}) |->
        IF f = F_id THEN Num(id) ELSE IF f = F_age THEN Num(age) ELSE Arr(tags)]

\* documents of the shape the test inserts: an age, a list of tags, and an _id
\* that is generated or chosen by the caller
QueryInputs ==
    { DocWith(0, 1, TRUE, << 1 >>), DocWith(0, MaxAge, TRUE, << 1, 2 >>),
      DocWith(1, MaxAge, FALSE, << >>), DocWith(2, 1, TRUE, << 2 >>) }

\* the arguments of insertMany: different documents, so that the identifiers
\* the callers choose are distinct
QuerySeqs ==
    UNION { { docs \in [1..n -> QueryInputs] :
                \A i, j \in 1..n : docs[i] = docs[j] => i = j } : n \in 1..MaxQueryDocs }

QueryHandle == [conn |-> FALSE, colls |-> {QueryColl}]

\* the data directory after createCollection("users") and one insertMany
QueryWorlds ==
    { insertMany(createCollection(EmptyWorld, [conn |-> FALSE, colls |-> {}],
                                  QueryColl).w,
                 QueryHandle, QueryColl, docs).w : docs \in QuerySeqs }

\* Object.entries of a query value that is an object.  An array has one entry
\* per element.  What an ObjectId has is up to the bson library: its bytes are
\* held under a symbol (no entry) or under a string key (one entry).
ObjectEntries(v, ownKeys) ==
    IF IsArr(v) THEN [i \in 1..Len(v[2]) |-> << ToString(i - 1), Num(v[2][i]) >>]
    ELSE IF ownKeys THEN << << "id", v >> >> ELSE << >>

\* the query { _id: id }
IdQuery(id, ownKeys) ==
    << << F_id, IF IsNum(id) THEN << "lit", id >>
                ELSE << "obj", ObjectEntries(id, ownKeys) >> >> >>

\* Collection.findOne(query): documents.find(...) || null, null being << >>
findOne(file, query) ==
    SliceTo(SelectSeq(loadData(file), LAMBDA d : matchDocument(d, query)), 1)

\* Collection.findById(id), for an id that is not a string
findById(file, id, ownKeys) == findOne(file, IdQuery(id, ownKeys))

AgeQueries ==
    {<< << F_age, << "lit", Num(a) >> >> >> : a \in 1..MaxAge}
        \cup {<< << F_age, << "$gte", Num(a) >> >> >> : a \in 1..MaxAge}

TagSets == { << 1 >>, << 2 >>, << 1, 2 >> }

TagQueries == {<< << F_tags, << "$in", Arr(S) >> >> >> : S \in TagSets}

QueryQueries == {<< >>} \cup AgeQueries \cup TagQueries

Sorts == { << >>, << << F_age, 1 >> >>, << << F_age, 0 - 1 >> >> }

InitQuery ==
    /\ \E w \in QueryWorlds :
          /\ dirs = w.dirs
          /\ dataFile = w.data
          /\ indexFiles = w.files
          /\ redisIndexes = w.rmeta
          /\ redisSets = w.rsets
          /\ oidCount = w.oids
    /\ isConnected = FALSE
    /\ collections = {QueryColl}
    /\ lastOp = Op("init", "", FALSE)
    /\ DispIdle
    /\ ConcIdle
    /\ CodecIdle
    /\ queryCall = NoQueryCall
    /\ indexCall = NoIndexCall
    /\ redisUp = FALSE
    /\ HistIdle

QueryFind ==
    \E q \in QueryQueries, sort \in Sorts, skip \in 0..MaxSkip, limit \in 0..MaxSkip :
        /\ queryCall.op = "none"
        /\ queryCall' = [op |-> "find", query |-> q,
                         options |-> [sort |-> sort, limit |-> limit, skip |-> skip],
                         found |-> find(dataFile[QueryColl], q,
                                        [sort |-> sort, limit |-> limit, skip |-> skip]),
                         n |-> 0, target |-> 0]
        /\ UNCHANGED << storeVars, dispVars, concVars, codecVars, indexCall, redisUp, histVars >>

QueryFindOne ==
    \E i \in 1..Len(loadData(dataFile[QueryColl])), ownKeys \in BOOLEAN :
        /\ queryCall.op = "none"
        /\ queryCall' = [op |-> "findOne",
                         query |-> IdQuery(loadData(dataFile[QueryColl])[i][F_id], ownKeys),
                         options |-> NoOptions,
                         found |-> findOne(dataFile[QueryColl],
                                     IdQuery(loadData(dataFile[QueryColl])[i][F_id], ownKeys)),
                         n |-> 0, target |-> i]
        /\ UNCHANGED << storeVars, dispVars, concVars, codecVars, indexCall, redisUp, histVars >>

QueryFindById ==
    \E i \in 1..Len(loadData(dataFile[QueryColl])), ownKeys \in BOOLEAN :
        /\ queryCall.op = "none"
        /\ queryCall' = [op |-> "findById",
                         query |-> IdQuery(loadData(dataFile[QueryColl])[i][F_id], ownKeys),
                         options |-> NoOptions,
                         found |-> findById(dataFile[QueryColl],
                                      loadData(dataFile[QueryColl])[i][F_id], ownKeys),
                         n |-> 0, target |-> i]
        /\ UNCHANGED << storeVars, dispVars, concVars, codecVars, indexCall, redisUp, histVars >>

QueryCount ==
    \E q \in QueryQueries :
        /\ queryCall.op = "none"
        /\ queryCall' = [op |-> "count", query |-> q, options |-> NoOptions,
                         found |-> << >>, n |-> count(dataFile[QueryColl], q),
                         target |-> 0]
        /\ UNCHANGED << storeVars, dispVars, concVars, codecVars, indexCall, redisUp, histVars >>

NextQuery ==
    \/ QueryFind
    \/ QueryFindOne
    \/ QueryFindById
    \/ QueryCount

SpecQuery == InitQuery /\ [][NextQuery]_vars

\* the documents of the collection the reads are made on
QueryDocuments == loadData(dataFile[QueryColl])

\* the matching documents in sort order
SortedMatches(q, sort) ==
    IF sort = << >> THEN SelectSeq(QueryDocuments, LAMBDA d : matchDocument(d, q))
    ELSE sortDocuments(SelectSeq(QueryDocuments, LAMBDA d : matchDocument(d, q)), sort)

\* the elements of s at positions skip .. skip + limit - 1, counted from 0
Window(s, skip, limit) ==
    SubSeq(s, skip + 1, IF skip + limit < Len(s) THEN skip + limit ELSE Len(s))

\* C11: find(query, {sort, skip, limit}) returns the sorted matches with the
\* first skip of them removed and then truncated to limit documents, that is
\* the sorted matches at positions skip .. skip + limit - 1.
C11_SkipThenLimit ==
    (queryCall.op = "find" /\ queryCall.options.skip > 0 /\ queryCall.options.limit > 0)
        => queryCall.found =
              Window(SortedMatches(queryCall.query, queryCall.options.sort),
                     queryCall.options.skip, queryCall.options.limit)


\* C12: for every document d inserted into a fresh collection,
\* findOne({_id: d._id}) and findById(d._id) return exactly that document: the
\* stored identifier matches the same identifier given as a query value and
\* matches no other document.
C12_FoundByIdentifier ==
    queryCall.op \in {"findOne", "findById"}
        => queryCall.found = << QueryDocuments[queryCall.target] >>

\* the documents whose age is at least v, and those whose tags have a member of S
AgeAtLeast(v) ==
    SelectSeq(QueryDocuments,
              LAMBDA d : Has(d, F_age) /\ IsNum(d[F_age]) /\ NumOf(d[F_age]) >= v)

TaggedIn(S) ==
    SelectSeq(QueryDocuments,
              LAMBDA d : Has(d, F_tags) /\ IsArr(d[F_tags])
                            /\ \E i \in 1..Len(d[F_tags][2]), j \in 1..Len(S) :
                                  d[F_tags][2][i] = S[j])

\* the one condition of the last find, when it had one and no options
OneCondition(operator) ==
    /\ queryCall.op = "find"
    /\ queryCall.options = NoOptions
    /\ Len(queryCall.query) = 1
    /\ queryCall.query[1][2][1] = operator

\* C13: find({age: {$gte: v}}) returns exactly the documents with age >= v, and
\* find({tags: {$in: S}}) over documents whose tags are arrays returns exactly
\* the documents whose tags contain a member of S.
C13_OperatorsSelect ==
    /\ OneCondition("$gte")
          => queryCall.found = AgeAtLeast(NumOf(queryCall.query[1][2][2]))
    /\ OneCondition("$in")
          => queryCall.found = TaggedIn(queryCall.query[1][2][2][2])

\* C14: for every query q and every collection state, count(q) equals the
\* number of documents find(q) returns when it is given no options.
C14_CountIsFindLength ==
    queryCall.op = "count"
        => queryCall.n = Len(find(dataFile[QueryColl], queryCall.query, NoOptions))

\* a count whose query selects some of the documents and not all of them
C14_Witness ==
    /\ queryCall.op = "count"
    /\ queryCall.n > 0
    /\ queryCall.n < Len(QueryDocuments)

(***************************************************************************)
(* SpecIdx: one Database handle on a collection with the default index on  *)
(* _id and an index on tags.  Each operation is one step; an index file    *)
(* can be deleted or overwritten from outside the database, once.  A       *)
(* behaviour has MaxIdxSteps steps at most.                                *)
(***************************************************************************)
MaxIdxSteps == 4

IdxColl == "users"

\* the documents inserted: identifiers are generated, so they are distinct
IdxInputs == { DocWith(0, 1, TRUE, << 1 >>), DocWith(0, MaxAge, FALSE, << >>) }

IdxUpdates == { << << "$push", << << F_tags, Num(2) >> >> >> >>,
                << << "$set", << << F_tags, Arr(<< 2 >>) >> >> >> >> }

IdxBounded(w) ==
    /\ Len(loadData(w.data[IdxColl])) <= MaxDocs
    /\ \A i \in 1..Len(loadData(w.data[IdxColl])) : DocBounded(loadData(w.data[IdxColl])[i])

\* the data directory after createCollection("users") and createIndex(['tags'])
IdxWorld(conn) ==
    createIndex(createCollection(EmptyWorld, [conn |-> conn, colls |-> {}], IdxColl).w,
                [conn |-> conn, colls |-> {IdxColl}], IdxColl, << F_tags >>).w

InitIdx ==
    /\ isConnected \in BOOLEAN
    /\ dirs = IdxWorld(isConnected).dirs
    /\ dataFile = IdxWorld(isConnected).data
    /\ indexFiles = IdxWorld(isConnected).files
    /\ redisIndexes = IdxWorld(isConnected).rmeta
    /\ redisSets = IdxWorld(isConnected).rsets
    /\ oidCount = IdxWorld(isConnected).oids
    /\ collections = {IdxColl}
    /\ lastOp = Op("init", "", FALSE)
    /\ DispIdle
    /\ ConcIdle
    /\ CodecIdle
    /\ CallIdle

\* the operations counted since the outside change
OpsSince == IF indexCall.event = "none" THEN 0 ELSE indexCall.since + 1

IdxApply(name, r, listed) ==
    /\ indexCall.steps < MaxIdxSteps
    /\ IdxBounded(r.w)
    /\ SetWorld(r.w)
    /\ lastOp' = Op(name, IdxColl, r.threw)
    /\ indexCall' = [indexCall EXCEPT !.op = name, !.threw = r.threw,
                                      !.docs = r.result, !.listed = listed,
                                      !.since = OpsSince, !.steps = @ + 1]
    /\ UNCHANGED << isConnected, collections, dispVars, concVars, codecVars, queryCall,
                    redisUp, histVars >>

IdxInsertOne ==
    \E d \in IdxInputs :
        IdxApply("insertOne", insertOne(World, Handle, IdxColl, d), << >>)

IdxUpdateOne ==
    \E q \in Queries, u \in IdxUpdates :
        IdxApply("updateOne", updateOne(World, Handle, IdxColl, q, u, FALSE), << >>)

IdxUpdateMany ==
    \E q \in Queries, u \in IdxUpdates :
        IdxApply("updateMany", updateMany(World, Handle, IdxColl, q, u), << >>)

IdxDeleteOne ==
    \E q \in Queries :
        IdxApply("deleteOne", deleteOne(World, Handle, IdxColl, q), << >>)

IdxDeleteMany ==
    \E q \in Queries :
        IdxApply("deleteMany", deleteMany(World, Handle, IdxColl, q), << >>)

\* the names of the indexes getCollectionIndexes returned
ListedNames(g) == [i \in 1..Len(g.indexes) |-> g.indexes[i].name]

\* Collection.stats(): loadData, fs.stat and getCollectionIndexes
IdxStats ==
    IdxApply("stats",
             Out(getCollectionIndexes(World, Handle, IdxColl).w, FALSE, << >>),
             ListedNames(getCollectionIndexes(World, Handle, IdxColl)))

\* an index file is removed from the collection's directory from outside
DeleteIndexFile ==
    \E n \in DOMAIN indexFiles[IdxColl] :
        /\ indexCall.event = "none"
        /\ indexCall.steps < MaxIdxSteps
        /\ indexFiles[IdxColl][n].kind = "bson"
        /\ indexFiles' = [indexFiles EXCEPT
                            ![IdxColl] = [m \in DOMAIN @ \ {n} |-> @[m]]]
        /\ indexCall' = [indexCall EXCEPT !.op = "unlink", !.threw = FALSE,
                                          !.docs = << >>, !.listed = << >>,
                                          !.event = "deleted", !.name = n,
                                          !.file = indexFiles[IdxColl][n], !.since = 0,
                                          !.steps = @ + 1]
        /\ UNCHANGED << dirs, dataFile, redisIndexes, redisSets, oidCount, isConnected,
                        collections, lastOp, dispVars, concVars, codecVars, queryCall,
                        redisUp, histVars >>

\* an index file is overwritten from outside with bytes that do not decode
CorruptIndexFile ==
    \E n \in DOMAIN indexFiles[IdxColl] :
        /\ indexCall.event = "none"
        /\ indexCall.steps < MaxIdxSteps
        /\ indexFiles[IdxColl][n].kind = "bson"
        /\ indexFiles' = [indexFiles EXCEPT ![IdxColl][n] = GarbageIndex]
        /\ indexCall' = [indexCall EXCEPT !.op = "overwrite", !.threw = FALSE,
                                          !.docs = << >>, !.listed = << >>,
                                          !.event = "corrupted", !.name = n,
                                          !.file = indexFiles[IdxColl][n], !.since = 0,
                                          !.steps = @ + 1]
        /\ UNCHANGED << dirs, dataFile, redisIndexes, redisSets, oidCount, isConnected,
                        collections, lastOp, dispVars, concVars, codecVars, queryCall,
                        redisUp, histVars >>

NextIdx ==
    \/ IdxInsertOne
    \/ IdxUpdateOne
    \/ IdxUpdateMany
    \/ IdxDeleteOne
    \/ IdxDeleteMany
    \/ IdxStats
    \/ DeleteIndexFile
    \/ CorruptIndexFile

SpecIdx == InitIdx /\ [][NextIdx]_vars

\* the composite keys of index file n under which the identifier of d is listed
FileKeysOf(n, d) ==
    {key \in DOMAIN indexFiles[IdxColl][n].data :
        IdString(d) \in SeqToSet(indexFiles[IdxColl][n].data[key])}

\* the composite keys of the cache sets of index n under which it is listed
CacheKeysOf(n, d) ==
    {e[3] : e \in {x \in redisSets : x[1] = IdxColl /\ x[2] = n /\ x[4] = IdString(d)}}

\* the composite key of d in index file n
OwnKey(n, d) == getDocumentIndexKey(d, indexFiles[IdxColl][n].metadata.fields)

\* C15: after updateOne or updateMany has changed a document, in every index
\* of the collection the document's identifier is listed under the composite
\* key of the updated document and under no other key, in the index file and,
\* with the cache connected, in the cache sets.
C15_UpdateMovesIndexEntry ==
    (indexCall.op \in {"updateOne", "updateMany"} /\ indexCall.event = "none")
        => \A i \in 1..Len(indexCall.docs) :
              \A n \in DOMAIN indexFiles[IdxColl] :
                  /\ FileKeysOf(n, indexCall.docs[i]) = {OwnKey(n, indexCall.docs[i])}
                  /\ isConnected
                        => CacheKeysOf(n, indexCall.docs[i]) = {OwnKey(n, indexCall.docs[i])}

\* C16: after deleteOne or deleteMany has removed a document, the document
\* is absent from the data file (from find({})) and its identifier is absent
\* from every composite-key set of every index of the collection, in the
\* index file and in the cache sets.
C16_DeleteClearsIndexes ==
    (indexCall.op \in {"deleteOne", "deleteMany"} /\ indexCall.event = "none")
        => \A i \in 1..Len(indexCall.docs) :
              /\ \A j \in 1..Len(Documents(IdxColl)) :
                    Documents(IdxColl)[j][F_id] # indexCall.docs[i][F_id]
              /\ \A n \in DOMAIN indexFiles[IdxColl] :
                    /\ FileKeysOf(n, indexCall.docs[i]) = {}
                    /\ CacheKeysOf(n, indexCall.docs[i]) = {}

\* the operations that always call getCollectionIndexes
ListingOps == {"stats", "insertOne"}

\* C17: when an index file has been deleted from outside, the next operation
\* that calls getCollectionIndexes rebuilds it: the file exists again, and
\* after a read it holds the mapping it held before the deletion.
C17_DeletedIndexRebuilt ==
    (indexCall.event = "deleted" /\ indexCall.since = 1 /\ indexCall.op \in ListingOps)
        => /\ indexCall.name \in DOMAIN indexFiles[IdxColl]
           /\ indexCall.op = "stats"
                 => indexFiles[IdxColl][indexCall.name].data = indexCall.file.data

\* the index file that was overwritten has been written anew by the repair
Repaired ==
    /\ indexCall.event = "corrupted"
    /\ indexCall.since >= 1
    /\ indexCall.name \in DOMAIN indexFiles[IdxColl]
    /\ indexFiles[IdxColl][indexCall.name].kind = "bson"

\* C18: when an index file cannot be deserialized, the self-repair recreates
\* an index with the same name and the same ordered field list as the index
\* that was created originally, field names with '_' in them included (the
\* default index on '_id').
C18_RepairKeepsFields ==
    Repaired
        => /\ indexFiles[IdxColl][indexCall.name].metadata.name = indexCall.name
           /\ indexFiles[IdxColl][indexCall.name].metadata.fields
                 = indexCall.file.metadata.fields

\* the indexes of the collection other than the one overwritten
OtherIndexes == DOMAIN indexFiles[IdxColl] \ {indexCall.name}

\* the first operation after an index file was overwritten from outside
AfterCorruption(ops) ==
    /\ indexCall.event = "corrupted"
    /\ indexCall.since = 1
    /\ indexCall.op \in ops

\* C19: with one index file of a collection undecodable, every read and write
\* on the collection still completes: it does not throw, a write reaches the
\* data file, every other index is still listed by getCollectionIndexes, and
\* every other index is still updated by the write (the document written is
\* listed under its key, the document deleted is not).
C19_OtherIndexesServed ==
    /\ AfterCorruption({"stats", "insertOne", "updateOne", "updateMany", "deleteOne",
                        "deleteMany"})
          => ~indexCall.threw
    /\ AfterCorruption({"stats"})
          => OtherIndexes \subseteq SeqToSet(indexCall.listed)
    /\ AfterCorruption({"insertOne", "updateOne", "updateMany"})
          => \A i \in 1..Len(indexCall.docs) :
                /\ indexCall.docs[i] \in SeqToSet(Documents(IdxColl))
                /\ \A n \in OtherIndexes :
                      OwnKey(n, indexCall.docs[i]) \in FileKeysOf(n, indexCall.docs[i])
    /\ AfterCorruption({"deleteOne", "deleteMany"})
          => \A i \in 1..Len(indexCall.docs) :
                /\ indexCall.docs[i] \notin SeqToSet(Documents(IdxColl))
                /\ \A n \in OtherIndexes :
                      OwnKey(n, indexCall.docs[i]) \notin FileKeysOf(n, indexCall.docs[i])

\* a document was inserted while an index file was undecodable, and another
\* index of the collection lists it
C19_Witness ==
    /\ AfterCorruption({"insertOne"})
    /\ Len(indexCall.docs) = 1
    /\ \E n \in OtherIndexes :
          OwnKey(n, indexCall.docs[1]) \in FileKeysOf(n, indexCall.docs[1])

(***************************************************************************)
(* SpecOpen: a Database is constructed and initialised while the cache     *)
(* server answers or not, and is then used.                                *)
(***************************************************************************)
InitOpen ==
    /\ StoreIdle
    /\ isConnected = FALSE
    /\ DispIdle
    /\ ConcIdle
    /\ CodecIdle
    /\ queryCall = NoQueryCall
    /\ indexCall = NoIndexCall
    /\ redisUp \in BOOLEAN
    /\ HistIdle

\* Database.init(), with the connect() it makes
Open ==
    \E iv \in Ivs :
        LET r == databaseInit(World, connect(Handle, redisUp), encryption, iv, fault)
        IN  /\ ~dbInit.isInitialized
            /\ SetWorld(r.w)
            /\ isConnected' = r.h.conn
            /\ collections' = r.h.colls
            /\ dbInit' = [isInitialized |-> r.isInitialized, threw |-> r.threw,
                          test |-> r.test]
            /\ UNCHANGED << lastOp, encryption, fault, codecOp, dispVars, concVars,
                            auxVars >>

OpenCreateCollection ==
    /\ dbInit.isInitialized
    /\ CreateCollection

OpenCreateIndex ==
    /\ IdxColl \in collections
    /\ IdxApply("createIndex",
                removed(createIndex(World, Handle, IdxColl, << F_tags >>), << >>),
                << >>)

OpenInsertOne ==
    /\ IdxColl \in collections
    /\ IdxInsertOne

OpenUpdateOne ==
    /\ IdxColl \in collections
    /\ IdxUpdateOne

OpenDeleteOne ==
    /\ IdxColl \in collections
    /\ IdxDeleteOne

NextOpen ==
    \/ Open
    \/ OpenCreateCollection
    \/ OpenCreateIndex
    \/ OpenInsertOne
    \/ OpenUpdateOne
    \/ OpenDeleteOne

SpecOpen == InitOpen /\ [][NextOpen]_vars

\* C20: when the cache is unreachable, Database.init() still succeeds, and
\* every later insert, update, delete and index operation completes with the
\* index files only: none throws, the cache is never called, and the document
\* written is listed in every index file of the collection.
C20_FileOnlyWhenCacheDown ==
    (~redisUp /\ dbInit.isInitialized)
        => /\ ~dbInit.threw
           /\ ~lastOp.threw
           /\ redisIndexes = NoMetaHash
           /\ redisSets = {}
           /\ indexCall.op \in {"insertOne", "updateOne"}
                 => \A i \in 1..Len(indexCall.docs) :
                       \A n \in DOMAIN indexFiles[IdxColl] :
                           OwnKey(n, indexCall.docs[i]) \in FileKeysOf(n, indexCall.docs[i])

\* with the cache unreachable, a document was inserted after the index on
\* tags was created, and both index files list it
C20_Witness ==
    /\ ~redisUp
    /\ dbInit.isInitialized
    /\ indexCall.op = "insertOne"
    /\ Len(indexCall.docs) = 1
    /\ F_tags \in DOMAIN indexFiles[IdxColl]
    /\ \A n \in DOMAIN indexFiles[IdxColl] :
          OwnKey(n, indexCall.docs[1]) \in FileKeysOf(n, indexCall.docs[1])

(***************************************************************************)
(* SpecDrop: one Database handle on two collections, each with the default *)
(* index on _id and an index on tags.  Indexes are dropped and created,    *)
(* documents inserted and deleted; an index file of "users" can be         *)
(* overwritten from outside, once, and is then repaired by the operation   *)
(* that lists it.  A behaviour has MaxIdxSteps steps at most.              *)
(***************************************************************************)
DropColls == {"users", "posts"}

DropFieldLists == { << F_id >>, << F_tags >> }

DropEmptyWorld ==
    [dirs |-> {}, data |-> [c \in DropColls |-> AbsentFile],
     files |-> [c \in DropColls |-> NoFiles], rmeta |-> NoMetaHash, rsets |-> {},
     oids |-> 0, hung |-> FALSE]

\* createCollection(c), then createIndex(['tags']) on it
DropIndexed(r, c) == createIndex(r.w, r.h, c, << F_tags >>).w

DropCreated(w, h, c) == DropIndexed(createCollection(w, h, c), c)

\* the data directory after both collections and their indexes are created
DropWorld(conn) ==
    DropCreated(DropCreated(DropEmptyWorld, [conn |-> conn, colls |-> {}], "users"),
                [conn |-> conn, colls |-> {"users"}], "posts")

DropBounded(w) ==
    \A c \in DropColls :
        /\ Len(loadData(w.data[c])) <= MaxDocs
        /\ \A i \in 1..Len(loadData(w.data[c])) : DocBounded(loadData(w.data[c])[i])

InitDrop ==
    /\ isConnected \in BOOLEAN
    /\ dirs = DropWorld(isConnected).dirs
    /\ dataFile = DropWorld(isConnected).data
    /\ indexFiles = DropWorld(isConnected).files
    /\ redisIndexes = DropWorld(isConnected).rmeta
    /\ redisSets = DropWorld(isConnected).rsets
    /\ oidCount = DropWorld(isConnected).oids
    /\ collections = DropColls
    /\ lastOp = Op("init", "", FALSE)
    /\ DispIdle
    /\ ConcIdle
    /\ CodecIdle
    /\ CallIdle

\* an operation on collection c (and, for createIndex and dropIndex, on the
\* index named n) becomes the state
DropApply(name, c, n, r) ==
    /\ indexCall.steps < MaxIdxSteps
    /\ DropBounded(r.w)
    /\ SetWorld(r.w)
    /\ lastOp' = Op(name, c, r.threw)
    /\ indexCall' = [indexCall EXCEPT !.op = name, !.threw = r.threw, !.name = n,
                                      !.since = OpsSince, !.steps = @ + 1]
    /\ dropped' = IF name = "dropIndex" THEN dropped \cup {<< c, n >>}
                  ELSE IF name = "createIndex" THEN dropped \ {<< c, n >>}
                  ELSE dropped
    /\ UNCHANGED << isConnected, collections, dispVars, concVars, codecVars, queryCall,
                    redisUp, routed, taskVars >>

\* Collection.dropIndex(fields)
DropIndex ==
    \E c \in DropColls, fields \in DropFieldLists :
        DropApply("dropIndex", c, IndexNameOf(fields), dropIndex(World, Handle, c, fields))

\* Collection.createIndex(fields)
DropCreateIndex ==
    \E c \in DropColls :
        DropApply("createIndex", c, IndexNameOf(<< F_tags >>),
                  createIndex(World, Handle, c, << F_tags >>))

DropInsertOne ==
    \E c \in DropColls, d \in IdxInputs :
        DropApply("insertOne", c, << >>, insertOne(World, Handle, c, d))

DropDeleteOne ==
    \E c \in DropColls :
        DropApply("deleteOne", c, << >>, deleteOne(World, Handle, c, << >>))

\* Collection.stats() of "users": getCollectionIndexes, which repairs what it
\* cannot parse
DropStats ==
    DropApply("stats", IdxColl, << >>,
              Ret(getCollectionIndexes(World, Handle, IdxColl).w, FALSE))

NextDrop ==
    \/ DropIndex
    \/ DropCreateIndex
    \/ DropInsertOne
    \/ DropDeleteOne
    \/ DropStats
    \/ CorruptIndexFile

SpecDrop == InitDrop /\ [][NextDrop]_vars

\* C21: every collection of the registry has its default index on _id: the
\* index file is in the collection's directory, whatever createIndex,
\* dropIndex and repair have done.
C21_DefaultIndexKept ==
    \A c \in collections : ~IndexFileMissing(World, c, IndexNameOf(<< F_id >>))

\* the names getCollectionIndexes lists for collection c
ListedFor(c) ==
    {getCollectionIndexes(World, Handle, c).indexes[i].name :
        i \in 1..Len(getCollectionIndexes(World, Handle, c).indexes)}

\* what dropIndex(c, n) removed is gone: the file, the cache metadata of the
\* collection's index, its cache sets, and its place in the listing
DroppedGone(c, n) ==
    /\ IndexFileMissing(World, c, n)
    /\ ~(n \in DOMAIN redisIndexes /\ redisIndexes[n].collection = c)
    /\ \A e \in redisSets : ~(e[1] = c /\ e[2] = n)
    /\ n \notin ListedFor(c)

\* a step that is dropIndex(c, n) where the index file of n was absent
DropOfAbsent(c, n) ==
    /\ indexCall'.steps = indexCall.steps + 1
    /\ indexCall'.op = "dropIndex"
    /\ lastOp'.c = c
    /\ indexCall'.name = n
    /\ IndexFileMissing(World, c, n)

\* everything but the cache entries of index n of collection c is as before
NothingElseChanged(c, n) ==
    /\ dirs' = dirs
    /\ dataFile' = dataFile
    /\ indexFiles' = indexFiles
    /\ \A m \in DOMAIN redisIndexes :
          (m # n \/ redisIndexes[m].collection # c)
              => (m \in DOMAIN redisIndexes' /\ redisIndexes'[m] = redisIndexes[m])
    /\ \A e \in redisSets : (e[1] # c \/ e[2] # n) => e \in redisSets'

\* C28: an index that dropIndex removed (and createIndex has not made again)
\* has no index file, no cache metadata and no cache sets, is not listed by
\* getCollectionIndexes, and stays so through later writes; and a dropIndex
\* of an index whose file is absent returns without an error and changes
\* nothing but that index's own cache entries.
C28_DropIndexRemoves ==
    /\ [](\A p \in dropped : DroppedGone(p[1], p[2]))
    /\ [][\A c \in DropColls, f \in DropFieldLists :
             DropOfAbsent(c, IndexNameOf(f))
                 => (~lastOp'.threw /\ NothingElseChanged(c, IndexNameOf(f)))]_vars

(***************************************************************************)
(* SpecUpd: SpecIdx's collection, with documents inserted and updated by   *)
(* update documents that name the identifier field.                        *)
(***************************************************************************)
IdUpdates == { << << "$set", << << F_id, Num(1) >> >> >> >>,
               << << "$unset", << << F_id, Num(1) >> >> >> >>,
               << << "$inc", << << F_id, Num(1) >> >> >> >>,
               << << "$push", << << F_id, Num(1) >> >> >> >>,
               << << "$set", << << F_age, Num(MaxAge) >> >> >> >> }

\* a call is a step when it returns or throws
UpdApply(name, r) == ~r.w.hung /\ IdxApply(name, r, << >>)

UpdUpdateOne ==
    \E q \in Queries, u \in IdUpdates :
        UpdApply("updateOne", updateOne(World, Handle, IdxColl, q, u, FALSE))

UpdUpdateMany ==
    \E q \in Queries, u \in IdUpdates :
        UpdApply("updateMany", updateMany(World, Handle, IdxColl, q, u))

UpdInsertOne ==
    \E d \in IdxInputs : UpdApply("insertOne", insertOne(World, Handle, IdxColl, d))

NextUpd ==
    \/ UpdInsertOne
    \/ UpdUpdateOne
    \/ UpdUpdateMany

SpecUpd == InitIdx /\ [][NextUpd]_vars

\* the identifiers of the stored documents, in the order of the data file
StoredIds(file) ==
    [i \in 1..Len(loadData(file)) |-> FieldValue(loadData(file)[i], F_id)]

\* C22: updateOne and updateMany leave the identifier of every stored
\* document as it was, whatever the update document names.
C22_UpdateKeepsIdentifier ==
    [][(indexCall'.steps = indexCall.steps + 1
            /\ indexCall'.op \in {"updateOne", "updateMany"})
          => StoredIds(dataFile'[IdxColl]) = StoredIds(dataFile[IdxColl])]_vars

(***************************************************************************)
(* Database objects that are opened and closed.  d is a Database: conn     *)
(* and colls as in a handle, client and isInitialized.                     *)
(***************************************************************************)
\* IndexManager.connect() on d: the client is created, and connected or not
connectClient(d, reachable) ==
    [connect(d, reachable) EXCEPT !.client = IF reachable THEN "open" ELSE "failed"]

Opened(r) ==
    [w |-> r.w, d |-> [r.h EXCEPT !.isInitialized = r.isInitialized], threw |-> r.threw]

\* Database.init() on d: nothing when it is initialised already
initDatabase(w, d, reachable, e, iv, ft) ==
    IF d.isInitialized THEN [w |-> w, d |-> d, threw |-> FALSE]
    ELSE Opened(databaseInit(w, connectClient(d, reachable), e, iv, ft))

Closed(d, threw) == [d |-> d, threw |-> threw]

\* redisClient.quit(): the connection is closed; the promise of a quit() on a
\* client that is closed already is rejected (the client's ClientClosedError)
quit(d) ==
    IF d.client = "open" THEN Closed([d EXCEPT !.client = "closed"], FALSE)
    ELSE Closed(d, TRUE)

\* IndexManager.disconnect(): quit() when there is a client and isConnected
\* is set; neither is reset
disconnect(d) == IF d.client # "none" /\ d.conn THEN quit(d) ELSE Closed(d, FALSE)

\* Database.close(), after disconnect(): the collections' close() does
\* nothing, then the flag
closeAfter(r) ==
    IF r.threw THEN r ELSE Closed([r.d EXCEPT !.isInitialized = FALSE], FALSE)

\* Database.close()
closeDatabase(d) == closeAfter(disconnect(d))

(***************************************************************************)
(* Tasks: WorkerThread.handleMessage and WorkerManager.executeDirect on    *)
(* the store.  dbs is the worker's databases map for the one database name *)
(* used: whether it has the Database, and the object.                      *)
(***************************************************************************)
ServeTypes == {"connect", "insert", "find", "update", "delete", "bogus"}

TaskUpdate == << << "$set", << << F_age, Num(MaxAge) >> >> >> >>

Served(w, threw, d) == [w |-> w, threw |-> threw, d |-> d]

ServedOf(r, d) == Served(r.w, r.threw, d)

\* insertOne on the collection createCollection returned
insertInto(r, c, doc) ==
    IF r.threw THEN Served(r.w, TRUE, r.h)
    ELSE ServedOf(insertOne(r.w, r.h, c, doc), r.h)

\* find, updateOne or deleteOne on the collection db.collection(name) returned
collectionOp(w, d, type, c) ==
    CASE type = "find" -> Served(w, find(w.data[c], << >>, NoOptions) # << >> /\ FALSE, d)
      [] type = "update" -> ServedOf(updateOne(w, d, c, << >>, TaskUpdate, FALSE), d)
      [] type = "delete" -> ServedOf(deleteOne(w, d, c, << >>), d)

\* what a task of a known type does with the Database d it has: createCollection
\* and insert, or db.collection(name), which is undefined for a name that is
\* not registered (the worker throws 'Collection not found', executeDirect
\* throws the TypeError of a method call on undefined), and the operation
collectionTask(w, d, type, c, doc) ==
    IF type = "insert" THEN insertInto(createCollection(w, d, c), c, doc)
    ELSE IF c \notin d.colls THEN Served(w, TRUE, d)
    ELSE collectionOp(w, d, type, c)

\* how a task ended: the store, whether it threw, the worker's map, whether a
\* Database was opened for the task alone, and that Database as the task left it
Task(w, threw, dbs, opened, left) ==
    [w |-> w, threw |-> threw, dbs |-> dbs, opened |-> opened, left |-> left]

\* WorkerThread.connectDatabase, after db.init()
connectedDatabase(o, dbs) ==
    IF o.threw THEN Task(o.w, TRUE, dbs, FALSE, NewDatabase)
    ELSE Task(o.w, FALSE, [has |-> TRUE, d |-> o.d], FALSE, NewDatabase)

\* WorkerThread.connectDatabase(dbName, options)
connectDatabase(w, dbs, reachable, e, iv, ft) ==
    IF dbs.has THEN Task(w, FALSE, dbs, FALSE, NewDatabase)
    ELSE connectedDatabase(initDatabase(w, NewDatabase, reachable, e, iv, ft), dbs)

\* the finally block of insertDocuments, findDocuments, updateDocuments and
\* deleteDocuments with shouldClose set: db.close(), whose error replaces
\* the outcome of the try block
workerFinally(t, c, dbs) ==
    Task(t.w, t.threw \/ c.threw, dbs, TRUE, c.d)

\* ...Documents with a temporary connection, after db.init()
workerTransient(o, dbs, type, c, doc) ==
    IF o.threw THEN Task(o.w, TRUE, dbs, FALSE, o.d)
    ELSE workerFinally(collectionTask(o.w, o.d, type, c, doc),
                       closeDatabase(collectionTask(o.w, o.d, type, c, doc).d), dbs)

\* ...Documents on the Database of the map
workerPersistent(t) == Task(t.w, t.threw, [has |-> TRUE, d |-> t.d], FALSE, NewDatabase)

\* insertDocuments, findDocuments, updateDocuments, deleteDocuments
workerDocuments(w, dbs, type, c, doc, reachable, e, iv, ft) ==
    IF dbs.has THEN workerPersistent(collectionTask(w, dbs.d, type, c, doc))
    ELSE workerTransient(initDatabase(w, NewDatabase, reachable, e, iv, ft),
                         dbs, type, c, doc)

\* a handleMessage whose switch answers an unknown type with an empty result
handleMessageLax(w, dbs, type, c, doc, reachable, e, iv, ft) ==
    IF type = "connect" THEN connectDatabase(w, dbs, reachable, e, iv, ft)
    ELSE IF type \in {"insert", "find", "update", "delete"}
    THEN workerDocuments(w, dbs, type, c, doc, reachable, e, iv, ft)
    ELSE Task(w, FALSE, dbs, FALSE, NewDatabase)

\* WorkerThread.handleMessage(message): .threw is the 'error' message posted
\* instead of the 'response'
handleMessage(w, dbs, type, c, doc, reachable, e, iv, ft) ==
    IF type = "connect" THEN connectDatabase(w, dbs, reachable, e, iv, ft)
    ELSE IF type \in {"insert", "find", "update", "delete"}
    THEN workerDocuments(w, dbs, type, c, doc, reachable, e, iv, ft)
    ELSE Task(w, TRUE, dbs, FALSE, NewDatabase)

\* executeDirect after the operation: close() is reached when nothing threw
directClosed(t, c, dbs) ==
    IF t.threw THEN Task(t.w, TRUE, dbs, TRUE, t.d)
    ELSE Task(t.w, c.threw, dbs, TRUE, c.d)

\* executeDirect, after init() of the Database made for the task
directOpened(o, dbs, type, c, doc) ==
    IF o.threw THEN Task(o.w, TRUE, dbs, FALSE, o.d)
    ELSE directClosed(collectionTask(o.w, o.d, type, c, doc),
                      closeDatabase(collectionTask(o.w, o.d, type, c, doc).d), dbs)

\* WorkerManager.executeDirect(type, data)
executeDirect(w, dbs, type, c, doc, reachable, e, iv, ft) ==
    IF type = "connect" THEN Task(w, FALSE, dbs, FALSE, NewDatabase)
    ELSE IF type \in {"insert", "find", "update", "delete"}
    THEN directOpened(initDatabase(w, NewDatabase, reachable, e, iv, ft),
                      dbs, type, c, doc)
    ELSE Task(w, TRUE, dbs, FALSE, NewDatabase)

(***************************************************************************)
(* SpecTask: tasks on one database, served by a worker or run directly,    *)
(* one at a time, while the cache server answers or not.  A behaviour has  *)
(* MaxTaskSteps tasks at most.                                             *)
(***************************************************************************)
MaxTaskSteps == 3

InitTask ==
    /\ StoreIdle
    /\ isConnected = FALSE
    /\ DispIdle
    /\ ConcIdle
    /\ CodecIdle
    /\ queryCall = NoQueryCall
    /\ indexCall = NoIndexCall
    /\ redisUp \in BOOLEAN
    /\ HistIdle

\* a task and how its promise is settled: the manager resolves on a
\* 'response' and rejects on an 'error'; executeDirect returns or throws
TaskApply(type, where, r) ==
    /\ taskCall.steps < MaxTaskSteps
    /\ IdxBounded(r.w)
    /\ SetWorld(r.w)
    /\ databases' = r.dbs
    /\ lastOp' = Op(type, IdxColl, r.threw)
    /\ taskCall' = [type |-> type, where |-> where,
                    outcome |-> IF r.threw THEN "rejected" ELSE "resolved",
                    opened |-> r.opened, left |-> r.left,
                    unknown |-> IF type \in KnownTypes THEN taskCall.unknown
                                ELSE taskCall.unknown \cup {where},
                    steps |-> taskCall.steps + 1]
    /\ UNCHANGED << isConnected, collections, dispVars, concVars, codecVars, queryCall,
                    indexCall, redisUp, dropped, routed, closeCall, writeCall >>

TaskInWorker ==
    \E type \in ServeTypes, doc \in IdxInputs, iv \in Ivs :
        TaskApply(type, "worker",
                  handleMessage(World, databases, type, IdxColl, doc, redisUp,
                                encryption, iv, fault))

TaskDirect ==
    \E type \in ServeTypes, doc \in IdxInputs, iv \in Ivs :
        TaskApply(type, "direct",
                  executeDirect(World, databases, type, IdxColl, doc, redisUp,
                                encryption, iv, fault))

NextTask ==
    \/ TaskInWorker
    \/ TaskDirect

SpecTask == InitTask /\ [][NextTask]_vars

\* C24: a task of an unknown type is settled with an error, in a worker and
\* in direct execution, and leaves the data directory, the cache and the
\* worker's databases as they were; no Database is opened for it.
C24_UnknownTypeFails ==
    [][(taskCall'.steps = taskCall.steps + 1 /\ taskCall'.type \notin KnownTypes)
          => /\ taskCall'.outcome = "rejected"
             /\ ~taskCall'.opened
             /\ UNCHANGED << dirs, dataFile, indexFiles, redisIndexes, redisSets,
                             oidCount, databases >>]_vars

\* unknown tasks have been served both ways, the last one on a collection
\* that holds a document
C24_Witness ==
    /\ taskCall.unknown = {"worker", "direct"}
    /\ taskCall.type \notin KnownTypes
    /\ taskCall.outcome = "rejected"
    /\ Len(loadData(dataFile[IdxColl])) > 0

\* C25: the Database opened for one task is closed when the task is settled:
\* close() has run on it, so its flag is cleared and its cache client is not
\* connected.
C25_TransientClosed ==
    taskCall.opened => (~taskCall.left.isInitialized /\ taskCall.left.client # "open")

(***************************************************************************)
(* SpecClose: one Database object of the application, initialised, used    *)
(* and closed any number of times, while the cache server answers or not.  *)
(* databases holds the object; closeCall counts the close() calls since    *)
(* the last init() that did something, whether the last call threw,        *)
(* whether it constructed a Collection, and whether the collection was     *)
(* registered before it.                                                   *)
(* A behaviour has MaxCloseSteps calls at most.                            *)
(***************************************************************************)
MaxCloseSteps == 5

InitClose == InitTask

CloseApply(name, w, d, closes, threw, made) ==
    /\ closeCall.steps < MaxCloseSteps
    /\ IdxBounded(w)
    /\ SetWorld(w)
    /\ databases' = [has |-> TRUE, d |-> d]
    /\ closeCall' = [closes |-> closes, threw |-> threw, made |-> made,
                     had |-> IdxColl \in databases.d.colls,
                     steps |-> closeCall.steps + 1]
    /\ lastOp' = Op(name, IdxColl, threw)
    /\ UNCHANGED << isConnected, collections, dispVars, concVars, codecVars, queryCall,
                    indexCall, redisUp, dropped, routed, taskCall, writeCall >>

CloseInitDone(r) ==
    CloseApply("init", r.w, r.d,
               IF databases.d.isInitialized THEN closeCall.closes ELSE 0, r.threw, FALSE)

\* db.init()
CloseInit ==
    \E iv \in Ivs :
        CloseInitDone(initDatabase(World, databases.d, redisUp, encryption, iv, fault))

CloseClosed(r) == CloseApply("close", World, r.d, closeCall.closes + 1, r.threw, FALSE)

\* db.close()
CloseClose ==
    /\ databases.has
    /\ CloseClosed(closeDatabase(databases.d))

CloseCreated(r) ==
    CloseApply("createCollection", r.w, r.h, closeCall.closes, r.threw, r.made)

\* db.createCollection('users')
CloseCreateCollection ==
    /\ databases.d.isInitialized
    /\ CloseCreated(createCollection(World, databases.d, IdxColl))

CloseInserted(r) == CloseApply("insertOne", r.w, r.d, closeCall.closes, r.threw, FALSE)

\* db.collection('users').insertOne(doc)
CloseInsertOne ==
    /\ IdxColl \in databases.d.colls
    /\ \E doc \in IdxInputs :
          CloseInserted(ServedOf(insertOne(World, databases.d, IdxColl, doc), databases.d))

NextClose ==
    \/ CloseInit
    \/ CloseClose
    \/ CloseCreateCollection
    \/ CloseInsertOne

SpecClose == InitClose /\ [][NextClose]_vars

\* C27: a second and every later close() of a Database that was opened
\* returns without an error and leaves the handle closed: the flag cleared
\* and the cache client not connected.
C27_CloseRepeatable ==
    (lastOp.op = "close" /\ closeCall.closes >= 2)
        => (~closeCall.threw /\ ~databases.d.isInitialized /\ databases.d.client # "open")

\* C26: a createCollection(name) made when the name is registered returns
\* the registered Collection (none is constructed), does not throw, and
\* leaves the registry, the data file, the index files and the cache as
\* they were.
C26_CreateCollectionIdempotent ==
    [][(closeCall'.steps = closeCall.steps + 1 /\ lastOp'.op = "createCollection"
            /\ IdxColl \in databases.d.colls)
          => /\ ~closeCall'.made
             /\ ~closeCall'.threw
             /\ databases'.d = databases.d
             /\ UNCHANGED << dirs, dataFile, indexFiles, redisIndexes, redisSets,
                             oidCount >>]_vars

\* createCollection was called for a registered collection that holds a
\* document
C26_Witness ==
    /\ lastOp.op = "createCollection"
    /\ closeCall.had
    /\ ~closeCall.made
    /\ Len(loadData(dataFile[IdxColl])) > 0

(***************************************************************************)
(* SpecRead: reads made one after another on a collection that holds       *)
(* documents.  A read is a call on the store: .w is the store it leaves.   *)
(***************************************************************************)
Read(w, found, n) == [w |-> w, found |-> found, n |-> n]

\* a find that keeps what it sorted as the collection's documents
findCallKeeping(w, c, query, options) ==
    Read(saveData(w, c, find(w.data[c], << >>, options)).w,
         find(w.data[c], query, options), 0)

\* Collection.find(query, options): loadData reads the data file into a new
\* array, filter and slice make new arrays, sortDocuments sorts the array
\* that filter returned; nothing is written and the Collection keeps nothing
findCall(w, c, query, options) == Read(w, find(w.data[c], query, options), 0)

\* Collection.findOne(query)
findOneCall(w, c, query) == Read(w, findOne(w.data[c], query), 0)

\* Collection.count(query)
countCall(w, c, query) == Read(w, << >>, count(w.data[c], query))

InitRead == InitQuery

ReadApply(name, q, options, r) ==
    /\ SetWorld(r.w)
    /\ queryCall' = [op |-> name, query |-> q, options |-> options,
                     found |-> r.found, n |-> r.n, target |-> 0]
    /\ UNCHANGED << isConnected, collections, lastOp, dispVars, concVars, codecVars,
                    indexCall, redisUp, histVars >>

ReadFind ==
    \E q \in QueryQueries, sort \in Sorts, limit \in 0..1 :
        ReadApply("find", q, [sort |-> sort, limit |-> limit, skip |-> 0],
                  findCall(World, QueryColl, q,
                           [sort |-> sort, limit |-> limit, skip |-> 0]))

ReadFindOne ==
    \E q \in QueryQueries :
        ReadApply("findOne", q, NoOptions, findOneCall(World, QueryColl, q))

ReadCount ==
    \E q \in QueryQueries :
        ReadApply("count", q, NoOptions, countCall(World, QueryColl, q))

NextRead ==
    \/ ReadFind
    \/ ReadFindOne
    \/ ReadCount

SpecRead == InitRead /\ [][NextRead]_vars

\* a step made by find, findOne or count
ReadStep == queryCall' # queryCall /\ queryCall'.op \in {"find", "findOne", "count"}

\* C29: find, findOne and count leave the data file, the index files and the
\* cache entries as they were, and a find of everything made after a read
\* returns the stored documents in the order it returned them before the
\* read, whatever sort the read used.
C29_ReadsDoNotMutate ==
    [][ReadStep
          => /\ UNCHANGED << dirs, dataFile, indexFiles, redisIndexes, redisSets >>
             /\ find(dataFile'[QueryColl], << >>, NoOptions)
                   = find(dataFile[QueryColl], << >>, NoOptions)]_vars

\* a find has returned all the documents in an order that is not the stored one
C29_Witness ==
    /\ queryCall.op = "find"
    /\ queryCall.options.sort # << >>
    /\ queryCall.query = << >>
    /\ Len(queryCall.found) = Len(loadData(dataFile[QueryColl]))
    /\ queryCall.found # loadData(dataFile[QueryColl])

(***************************************************************************)
(* SpecWrite: the write operations of one collection, each in the steps    *)
(* its awaits make: what it does up to and including saveData, and each    *)
(* call of updateIndex or removeFromIndex.  writeCall is the operation in  *)
(* flight: the snapshot it loaded (documents), its loop position (i), the  *)
(* documents updated so far (results), the index calls still to make       *)
(* (pending) and the documents the made ones were given (indexed), whether *)
(* saveData has returned (saved), and the store when it began (before).    *)
(* A behaviour has MaxWriteSteps steps at most.                            *)
(***************************************************************************)
MaxWriteSteps == 7

\* the arguments of one updateIndex(newDoc, oldDoc) or removeFromIndex(newDoc)
IndexArg(newDoc, oldDoc, hasOld, remove) ==
    [newDoc |-> newDoc, oldDoc |-> oldDoc, hasOld |-> hasOld, remove |-> remove]

RemoveArgs(docs) == [i \in 1..Len(docs) |-> IndexArg(docs[i], EmptyObj, FALSE, TRUE)]

AddArgs(docs) == [i \in 1..Len(docs) |-> IndexArg(docs[i], EmptyObj, FALSE, FALSE)]

\* the documents handed to insertMany
WriteSeqs ==
    {<< a >> : a \in IdxInputs}
        \cup {p \in {<< a, b >> : a \in IdxInputs, b \in IdxInputs} : p[1] # p[2]}

\* the data directory after createCollection("users") and createIndex(['age'])
WriteWorld(conn) ==
    createIndex(createCollection(EmptyWorld, [conn |-> conn, colls |-> {}], IdxColl).w,
                [conn |-> conn, colls |-> {IdxColl}], IdxColl, << F_age >>).w

InitWrite ==
    /\ isConnected \in BOOLEAN
    /\ dirs = WriteWorld(isConnected).dirs
    /\ dataFile = WriteWorld(isConnected).data
    /\ indexFiles = WriteWorld(isConnected).files
    /\ redisIndexes = WriteWorld(isConnected).rmeta
    /\ redisSets = WriteWorld(isConnected).rsets
    /\ oidCount = WriteWorld(isConnected).oids
    /\ collections = {IdxColl}
    /\ lastOp = Op("init", "", FALSE)
    /\ DispIdle
    /\ ConcIdle
    /\ CodecIdle
    /\ CallIdle

\* one step of a write: the store it leaves and the operation in flight
WriteStep(w, call) ==
    /\ writeCall.steps < MaxWriteSteps
    /\ IdxBounded(w)
    /\ ~w.hung
    /\ SetWorld(w)
    /\ writeCall' = [call EXCEPT !.steps = writeCall.steps + 1]
    /\ lastOp' = Op(call.op, IdxColl, call.threw)
    /\ UNCHANGED << isConnected, collections, dispVars, concVars, codecVars, queryCall,
                    indexCall, redisUp, dropped, routed, databases, taskCall, closeCall >>

\* an operation that has loaded documents, at its first step
Begin(op, documents) ==
    [NoWriteCall EXCEPT !.op = op, !.documents = documents, !.before = World]

\* after saveData returned s: the index calls follow unless it threw
WriteSaved(op, documents, s, args) ==
    WriteStep(s.w, [Begin(op, documents) EXCEPT
                       !.pc = IF s.threw THEN "idle" ELSE "index",
                       !.saved = ~s.threw, !.threw = s.threw, !.pending = args])

WriteInsertOneDoc(w, doc) ==
    WriteSaved("insertOne", loadData(w.data[IdxColl]),
               saveData(w, IdxColl, Append(loadData(w.data[IdxColl]), doc)),
               AddArgs(<< doc >>))

\* insertOne: the identifier, loadData, push, saveData
WriteInsertOne ==
    /\ writeCall.pc = "idle"
    /\ \E d \in IdxInputs :
          WriteInsertOneDoc(IF NeedsId(d) THEN [World EXCEPT !.oids = @ + 1] ELSE World,
                            WithId(d, oidCount + 1))

WriteInsertManyDocs(w, docs) ==
    WriteSaved("insertMany", loadData(w.data[IdxColl]),
               saveData(w, IdxColl, loadData(w.data[IdxColl]) \o docs), AddArgs(docs))

\* insertMany: the identifiers, loadData, push, saveData
WriteInsertMany ==
    /\ writeCall.pc = "idle"
    /\ \E docs \in WriteSeqs :
          WriteInsertManyDocs([World EXCEPT !.oids = @ + CountNeedsId(docs)],
                              AssignIds(docs, oidCount))

WriteUpdateOneApplied(documents, index, a) ==
    WriteSaved("updateOne", documents,
               saveData(World, IdxColl, [documents EXCEPT ![index] = a.updated]),
               << IndexArg(a.updated, a.doc, TRUE, FALSE) >>)

WriteUpdateOneAt(documents, index, update) ==
    /\ index # 0
    /\ WriteUpdateOneApplied(documents, index, applyUpdate(documents[index], update))

\* updateOne on a query that matches: loadData, findIndex, applyUpdate, saveData
WriteUpdateOne ==
    /\ writeCall.pc = "idle"
    /\ \E q \in Queries, u \in Updates :
          WriteUpdateOneAt(Documents(IdxColl), FindIndex(Documents(IdxColl), q), u)

WriteDeleteOneAt(documents, index) ==
    /\ index # 0
    /\ WriteSaved("deleteOne", documents,
                  saveData(World, IdxColl, Splice(documents, index)),
                  RemoveArgs(<< documents[index] >>))

\* deleteOne on a query that matches: loadData, findIndex, splice, saveData
WriteDeleteOne ==
    /\ writeCall.pc = "idle"
    /\ \E q \in Queries :
          WriteDeleteOneAt(Documents(IdxColl), FindIndex(Documents(IdxColl), q))

WriteDeleteManySplit(documents, toDelete, remaining) ==
    /\ Len(toDelete) > 0
    /\ WriteSaved("deleteMany", documents, saveData(World, IdxColl, remaining),
                  RemoveArgs(toDelete))

\* deleteMany on a query that matches: loadData, the split, saveData
WriteDeleteMany ==
    /\ writeCall.pc = "idle"
    /\ \E q \in Queries :
          WriteDeleteManySplit(Documents(IdxColl),
                               SelectSeq(Documents(IdxColl),
                                         LAMBDA d : matchDocument(d, q)),
                               SelectSeq(Documents(IdxColl),
                                         LAMBDA d : ~matchDocument(d, q)))

WriteIndexed(r, arg) ==
    WriteStep(r.w, [writeCall EXCEPT
                       !.pending = Tail(@), !.indexed = Append(@, arg.newDoc),
                       !.threw = r.threw,
                       !.pc = IF r.threw THEN "idle"
                              ELSE IF Len(writeCall.pending) = 1 THEN "idle"
                              ELSE "index"])

WriteIndexCall(arg) ==
    WriteIndexed(IF arg.remove
                 THEN removeFromIndex(World, Handle, IdxColl, arg.newDoc)
                 ELSE updateIndex(World, Handle, IdxColl, arg.newDoc, arg.oldDoc,
                                  arg.hasOld),
                 arg)

\* the next updateIndex or removeFromIndex of an operation that has saved
WriteIndex ==
    /\ writeCall.pc = "index"
    /\ WriteIndexCall(Head(writeCall.pending))

\* updateMany: loadData, before the loop
WriteUpdateMany ==
    /\ writeCall.pc = "idle"
    /\ \E q \in Queries, u \in Updates :
          WriteStep(World, [Begin("updateMany", Documents(IdxColl)) EXCEPT
                               !.pc = "loop", !.i = 1, !.query = q, !.update = u])

WriteUpdateManyIndexed(r, a) ==
    WriteStep(r.w, [writeCall EXCEPT
                       !.documents[writeCall.i] = a.updated,
                       !.results = Append(@, a.updated),
                       !.indexed = Append(@, a.updated),
                       !.threw = r.threw,
                       !.pc = IF r.threw THEN "idle" ELSE "loop",
                       !.i = @ + 1])

WriteUpdateManyApplied(a) ==
    WriteUpdateManyIndexed(updateIndex(World, Handle, IdxColl, a.updated, a.doc, TRUE), a)

\* one pass of updateMany's loop: applyUpdate and updateIndex on a document
\* that matches
WriteUpdateManyNext ==
    /\ writeCall.pc = "loop"
    /\ writeCall.i <= Len(writeCall.documents)
    /\ IF matchDocument(writeCall.documents[writeCall.i], writeCall.query)
       THEN WriteUpdateManyApplied(applyUpdate(writeCall.documents[writeCall.i],
                                               writeCall.update))
       ELSE WriteStep(World, [writeCall EXCEPT !.i = @ + 1])

WriteUpdateManySaved(s) ==
    WriteStep(s.w, [writeCall EXCEPT !.pc = "idle", !.saved = ~s.threw,
                                     !.threw = s.threw])

\* updateMany after its loop: saveData when a document was updated
WriteUpdateManySave ==
    /\ writeCall.pc = "loop"
    /\ writeCall.i > Len(writeCall.documents)
    /\ IF Len(writeCall.results) > 0
       THEN WriteUpdateManySaved(saveData(World, IdxColl, writeCall.documents))
       ELSE WriteStep(World, [writeCall EXCEPT !.pc = "idle"])

NextWrite ==
    \/ WriteInsertOne
    \/ WriteInsertMany
    \/ WriteUpdateOne
    \/ WriteUpdateMany
    \/ WriteUpdateManyNext
    \/ WriteUpdateManySave
    \/ WriteDeleteOne
    \/ WriteDeleteMany
    \/ WriteIndex

SpecWrite == InitWrite /\ [][NextWrite]_vars

\* C30: in every write operation saveData has returned before the first
\* updateIndex or removeFromIndex of the operation is made, so every document
\* the indexes have been updated with is in the data file, and every document
\* they have been cleared of is not.
C30_PersistBeforeIndex ==
    /\ Len(writeCall.indexed) > 0 => writeCall.saved
    /\ \A i \in 1..Len(writeCall.indexed) :
          IF writeCall.op \in {"deleteOne", "deleteMany"}
          THEN writeCall.indexed[i] \notin SeqToSet(Documents(IdxColl))
          ELSE writeCall.indexed[i] \in SeqToSet(Documents(IdxColl))


\* the indexes created on c and not dropped: the default index and the index
\* on tags, each until dropIndex removes it
CreatedOn(c) ==
    {n \in {IndexNameOf(<< F_id >>), IndexNameOf(<< F_tags >>)} : << c, n >> \notin dropped}

\* the cache hash has an entry for index n of collection c
Registered(c, n) == n \in DOMAIN redisIndexes /\ redisIndexes[n].collection = c

\* C31: with the cache connected and no index file changed from outside, the
\* hash db:<database>:indexes has an entry for every index of every
\* collection, also when two collections have an index of the same name, and
\* getCollectionIndexes lists for each collection every index created on it
\* and not dropped.
C31_RegistryPerIndex ==
    (isConnected /\ indexCall.event = "none")
        => \A c \in DropColls :
              /\ \A n \in CreatedOn(c) : Registered(c, n)
              /\ CreatedOn(c) \subseteq ListedFor(c)


(***************************************************************************)
(* SpecDropAll: two collections of one database with their indexes, used   *)
(* and dropped, with the cache connected or not.                           *)
(***************************************************************************)
\* fs.rm(collectionPath, { recursive: true, force: true })
rm(w, c) == [w EXCEPT !.dirs = @ \ {c}, !.data[c] = AbsentFile, !.files[c] = NoFiles]

RECURSIVE dropIndexes(_, _, _, _)
\* the loop of dropCollectionIndexes over the indexes listed
dropIndexes(w, h, c, indexes) ==
    IF Len(indexes) = 0 THEN Ret(w, FALSE)
    ELSE dropIndexes(dropIndex(w, h, c, Head(indexes).fields).w, h, c, Tail(indexes))

dropListed(g, h, c) == dropIndexes(g.w, h, c, g.indexes)

\* IndexManager.dropCollectionIndexes(collectionName)
dropCollectionIndexes(w, h, c) == dropListed(getCollectionIndexes(w, h, c), h, c)

\* Collection.drop(): the directory first, then the indexes that are listed
drop(w, h, c) == dropCollectionIndexes(rm(w, c), h, c)

\* Database.dropCollection(name) for a registered collection
DropCollection ==
    \E c \in collections :
        /\ indexCall.steps < MaxIdxSteps
        /\ SetWorld(drop(World, Handle, c).w)
        /\ collections' = collections \ {c}
        /\ lastOp' = Op("drop", c, FALSE)
        /\ indexCall' = [indexCall EXCEPT !.op = "drop", !.threw = FALSE, !.name = << >>,
                                          !.since = OpsSince, !.steps = @ + 1]
        /\ UNCHANGED << isConnected, dispVars, concVars, codecVars, queryCall, redisUp,
                        histVars >>

NextDropAll ==
    \/ DropCollection
    \/ DropIndex
    \/ DropCreateIndex
    \/ DropInsertOne
    \/ DropDeleteOne

SpecDropAll == InitDrop /\ [][NextDropAll]_vars

\* C32: after drop() of a collection its directory is gone, and with it its
\* data file and index files, the cache hash has no entry of the collection,
\* and there is no cache key set of any of its indexes.
C32_DropLeavesNothing ==
    lastOp.op = "drop"
        => /\ lastOp.c \notin dirs
           /\ indexFiles[lastOp.c] = NoFiles
           /\ \A n \in DOMAIN redisIndexes : redisIndexes[n].collection # lastOp.c
           /\ \A e \in redisSets : e[1] # lastOp.c

\* the index state of collection o in the cache and on disk
IndexStateOf(o, files, rmeta, rsets) ==
    << files[o], {n \in DOMAIN rmeta : rmeta[n].collection = o},
       {e \in rsets : e[1] = o} >>

\* C38: a dropIndex or a drop() of one collection leaves the data file, the
\* index files, the cache hash entries and the cache key sets of every other
\* collection as they were.
C38_DropLeavesOthers ==
    [][(indexCall'.steps = indexCall.steps + 1 /\ lastOp'.op \in {"dropIndex", "drop"})
          => \A o \in DropColls \ {lastOp'.c} :
                /\ dataFile'[o] = dataFile[o]
                /\ IndexStateOf(o, indexFiles', redisIndexes', redisSets')
                      = IndexStateOf(o, indexFiles, redisIndexes, redisSets)]_vars

(***************************************************************************)
(* SpecUps: updateOne with and without upsert on a collection with its     *)
(* default index and an index on tags, with the cache connected or not.    *)
(* queryCall holds the arguments of the last updateOne.  A behaviour has   *)
(* MaxUpsSteps calls at most.                                              *)
(***************************************************************************)
MaxUpsSteps == 3

UpsUpdates ==
    { << << "$set", << << F_age, Num(MaxAge) >> >> >> >>,
      << << "$set", << << F_age, Num(1) >>, << F_tags, Arr(<< 2 >>) >> >> >>,
         << "$inc", << << F_age, Num(1) >> >> >> >>,
      << << "fields", << << F_age, Num(1) >>, << F_tags, Arr(<< 1 >>) >> >> >> >>,
      << << "fields", << << F_id, Num(MaxCallerId) >>, << F_age, Num(MaxAge) >> >> >> >> }

UpsApply(q, u, upsert, r) ==
    /\ indexCall.steps < MaxUpsSteps
    /\ IdxBounded(r.w)
    /\ SetWorld(r.w)
    /\ lastOp' = Op("updateOne", IdxColl, r.threw)
    /\ indexCall' = [indexCall EXCEPT !.op = "updateOne", !.threw = r.threw,
                                      !.docs = r.result, !.since = OpsSince,
                                      !.steps = @ + 1]
    /\ queryCall' = [op |-> "updateOne", query |-> q, update |-> u, upsert |-> upsert]
    /\ UNCHANGED << isConnected, collections, dispVars, concVars, codecVars, redisUp,
                    histVars >>

UpsUpdateOne ==
    \E q \in Queries, u \in UpsUpdates, upsert \in BOOLEAN :
        UpsApply(q, u, upsert, updateOne(World, Handle, IdxColl, q, u, upsert))

UpsInsertOne ==
    \E d \in IdxInputs :
        /\ indexCall.steps < MaxUpsSteps
        /\ IdxApply("insertOne", insertOne(World, Handle, IdxColl, d), << >>)

NextUps ==
    \/ UpsUpdateOne
    \/ UpsInsertOne

SpecUps == InitIdx /\ [][NextUps]_vars

\* a step that is an updateOne whose query matched no document
NoMatchStep ==
    /\ indexCall'.steps = indexCall.steps + 1
    /\ indexCall'.op = "updateOne"
    /\ FindIndex(loadData(dataFile[IdxColl]), queryCall'.query) = 0

\* update.$set of the update of the step, or its own fields when it has no
\* operator
Payload ==
    IF \E i \in 1..Len(queryCall'.update) : queryCall'.update[i][1] = "$set"
    THEN ObjectOf(queryCall'.update[CHOOSE i \in 1..Len(queryCall'.update) :
                                       queryCall'.update[i][1] = "$set"][2])
    ELSE ObjectOf(queryCall'.update[1][2])

\* the document at the end of the data file after the step
Upserted == loadData(dataFile'[IdxColl])[Len(loadData(dataFile'[IdxColl]))]

\* the document is listed under its composite key in every index file and,
\* with the cache connected, in the cache set of every index
AddedToIndexes(d) ==
    \A n \in DOMAIN indexFiles'[IdxColl] :
        /\ indexFiles'[IdxColl][n].kind = "bson"
        /\ getDocumentIndexKey(d, indexFiles'[IdxColl][n].metadata.fields)
              \in DOMAIN indexFiles'[IdxColl][n].data
        /\ IdString(d) \in SeqToSet(indexFiles'[IdxColl][n].data[
                getDocumentIndexKey(d, indexFiles'[IdxColl][n].metadata.fields)])
        /\ isConnected
              => << IdxColl, n,
                    getDocumentIndexKey(d, indexFiles'[IdxColl][n].metadata.fields),
                    IdString(d) >> \in redisSets'

\* C33: an updateOne that matches no document, with upsert, appends one
\* document to the data file: update.$set when the update has a $set and
\* the update itself when it has no operator, with an identifier (the one
\* given, or a new ObjectId), returns it, and lists it in every index; without
\* upsert it returns null and leaves the data file, the index files and the
\* cache as they were.
C33_UpsertInsertsOne ==
    [][NoMatchStep
          => IF queryCall'.upsert
             THEN /\ ~indexCall'.threw
                  /\ Len(loadData(dataFile'[IdxColl])) = Len(loadData(dataFile[IdxColl])) + 1
                  /\ SubSeq(loadData(dataFile'[IdxColl]), 1, Len(loadData(dataFile[IdxColl])))
                        = loadData(dataFile[IdxColl])
                  /\ Has(Upserted, F_id)
                  /\ DOMAIN Upserted = DOMAIN Payload \cup {F_id}
                  /\ \A f \in DOMAIN Payload :
                        (f # F_id \/ Truthy(Payload[f])) => Upserted[f] = Payload[f]
                  /\ indexCall'.docs = << Upserted >>
                  /\ AddedToIndexes(Upserted)
             ELSE /\ indexCall'.docs = << >>
                  /\ UNCHANGED << dirs, dataFile, indexFiles, redisIndexes, redisSets >>]_vars

\* an upsert found no document in a collection that holds one, and inserted
\* the update's own fields
C33_Witness ==
    /\ indexCall.op = "updateOne"
    /\ queryCall.op = "updateOne"
    /\ queryCall.upsert
    /\ ~HasSet(queryCall.update)
    /\ Len(loadData(dataFile[IdxColl])) = 2
    /\ indexCall.docs = << loadData(dataFile[IdxColl])[2] >>
    /\ loadData(dataFile[IdxColl])[1] # loadData(dataFile[IdxColl])[2]


\* a step that is a connect or a find task for which a Database was
\* initialised: the task does nothing else to the store
OpeningStep ==
    /\ taskCall'.steps = taskCall.steps + 1
    /\ taskCall'.type \in {"connect", "find"}
    /\ IF taskCall'.type = "find" THEN taskCall'.opened
       ELSE ~databases.has /\ databases'.has

\* C34: Database.init() on a directory that holds collections, made for a
\* connect task or for the transient handle of a find task, leaves the data
\* file of each collection and, in each index file there is, the identifiers
\* listed under each composite key as they were.
C34_OpenLeavesStore ==
    [][OpeningStep
          => /\ dataFile' = dataFile
             /\ \A c \in DOMAIN indexFiles :
                   \A n \in DOMAIN indexFiles[c] :
                       /\ n \in DOMAIN indexFiles'[c]
                       /\ indexFiles'[c][n].data = indexFiles[c][n].data]_vars


(***************************************************************************)
(* SpecSingle: a WorkerManager without workers (threadCount <= 1, or no    *)
(* worker has reported ready): executeTask runs every task by              *)
(* executeDirect, an async function of the calling context.  The callers   *)
(* do not await one task before they submit the next, so the tasks take    *)
(* turns at their awaits: db.init(), the readFile of loadData, the open    *)
(* and the write of saveData's writeFile, the index update, and db.close() *)
(* with the return.  Task id inserts TaskDoc(id) into "users".             *)
(***************************************************************************)
InitSingle ==
    /\ \E w \in SeedWorlds :
          /\ dirs = w.dirs
          /\ dataFile = w.data
          /\ indexFiles = w.files
          /\ redisIndexes = w.rmeta
          /\ redisSets = w.rsets
          /\ oidCount = w.oids
          /\ committed = {loadData(w.data[ConcColl])}
    /\ isConnected = FALSE
    /\ collections = Colls
    /\ lastOp = Op("init", "", FALSE)
    /\ DispIdle
    /\ tasks = [id \in TaskIds |-> NoTask]
    /\ CodecIdle
    /\ CallIdle

\* executeTask(type, data) with no worker: executeDirect is entered and runs
\* to its first await
DirectStart ==
    \E id \in TaskIds, type \in {"insert", "find"} :
        /\ workers = {}
        /\ tasks[id].pc = "none"
        /\ \A j \in TaskIds : j < id => tasks[j].pc # "none"
        /\ tasks' = [tasks EXCEPT ![id] = [NoTask EXCEPT !.type = type, !.pc = "init"]]
        /\ UNCHANGED << dispVars, committed, storeVars, codecVars, auxVars >>

\* executeDirect's await db.init() on its new Database, and the
\* createCollection (insert) or collection look-up (find) after it
DirectInit ==
    \E id \in TaskIds, iv \in Ivs :
        /\ tasks[id].pc = "init"
        /\ SetWorld(initDatabase(World, NewDatabase, redisUp, encryption, iv, fault).w)
        /\ tasks' = [tasks EXCEPT ![id] = [@ EXCEPT !.pc = "loadData"]]
        /\ UNCHANGED << isConnected, collections, lastOp, dispVars, committed,
                        codecVars, auxVars >>

\* executeDirect's await db.close() and its return: the caller's promise is
\* settled
DirectReturn ==
    \E id \in TaskIds :
        /\ tasks[id].pc = "respond"
        /\ tasks' = [tasks EXCEPT ![id] = [@ EXCEPT !.pc = "done"]]
        /\ outcome' = [outcome EXCEPT ![id] =
               Append(@, IF tasks[id].threw THEN "rejected" ELSE "resolved")]
        /\ UNCHANGED << threads, workers, taskId, pendingTasks, inbox, outbox,
                        stopped, committed, storeVars, codecVars, auxVars >>

NextSingle ==
    \/ DirectStart
    \/ DirectInit
    \/ LoadData
    \/ OpenFile
    \/ WriteFile
    \/ UpdateIndex
    \/ DirectReturn

SpecSingle == InitSingle /\ [][NextSingle]_vars

\* the insert tasks run directly so far
DirectInserts == {id \in TaskIds : tasks[id].type = "insert"}

\* C35: without workers, when every task submitted has returned a result,
\* the document of each of the insert tasks is in the data file
C35_SingleContextSerialises ==
    (/\ Cardinality(DirectInserts) >= 2
     /\ \A id \in TaskIds : tasks[id].pc \in {"none", "done"}
     /\ \A id \in DirectInserts : outcome[id] = << "resolved" >>)
    => \A id \in DirectInserts :
          \E i \in 1..Len(Documents(ConcColl)) :
              Documents(ConcColl)[i][F_id] = TaskDoc(id)[F_id]


(***************************************************************************)
(* SpecOverlap: insertOne calls on one open Collection of "users", not     *)
(* awaited one before the next, the cache server not connected.  A call    *)
(* takes the steps of SpecConc on the data file, and its updateIndex one   *)
(* step per await: getCollectionIndexes, and for each index the readFile   *)
(* and the writeFile of updateFileIndex.  A call that has returned is at   *)
(* "respond".                                                              *)
(***************************************************************************)
OverlapWorlds ==
    SeedWorlds \cup
    {createIndex(w, [conn |-> FALSE, colls |-> Colls], ConcColl, << F_age >>).w :
        w \in SeedWorlds}

InitOverlap ==
    /\ \E w \in OverlapWorlds :
          /\ dirs = w.dirs
          /\ dataFile = w.data
          /\ indexFiles = w.files
          /\ redisIndexes = w.rmeta
          /\ redisSets = w.rsets
          /\ oidCount = w.oids
          /\ committed = {loadData(w.data[ConcColl])}
    /\ isConnected = FALSE
    /\ collections = Colls
    /\ lastOp = Op("init", "", FALSE)
    /\ DispIdle
    /\ tasks = [id \in TaskIds |-> NoTask]
    /\ CodecIdle
    /\ CallIdle

\* collection.insertOne(TaskDoc(id)) is called: it runs to its await loadData()
InsertCall ==
    \E id \in TaskIds :
        /\ tasks[id].pc = "none"
        /\ \A j \in TaskIds : j < id => tasks[j].pc # "none"
        /\ tasks' = [tasks EXCEPT ![id] = [NoTask EXCEPT !.type = "insert",
                                                         !.pc = "loadData"]]
        /\ UNCHANGED << dispVars, committed, storeVars, codecVars, auxVars >>

\* updateIndex's await getCollectionIndexes(collectionName)
ListIndexes ==
    \E id \in TaskIds :
        /\ tasks[id].pc = "updateIndex"
        /\ tasks' = [tasks EXCEPT ![id] =
               [@ EXCEPT !.indexes = getCollectionIndexes(World, ConcHandle, ConcColl).indexes,
                         !.pc = IF getCollectionIndexes(World, ConcHandle, ConcColl).indexes
                                   = << >>
                                THEN "respond" ELSE "readIndex"]]
        /\ UNCHANGED << dispVars, committed, storeVars, codecVars, auxVars >>

\* what is left of the loop of updateIndex after the index at its head
NextIndex(t) ==
    [t EXCEPT !.indexes = Tail(@),
              !.pc = IF Len(t.indexes) = 1 THEN "respond" ELSE "readIndex"]

\* updateFileIndex's await fs.readFile(indexFilePath); when the file is
\* missing the catch ends the call
ReadIndexFile ==
    \E id \in TaskIds :
        /\ tasks[id].pc = "readIndex"
        /\ tasks' = [tasks EXCEPT ![id] =
               IF IndexFileMissing(World, ConcColl, Head(tasks[id].indexes).name)
               THEN NextIndex(@)
               ELSE [@ EXCEPT !.index = indexFiles[ConcColl][Head(tasks[id].indexes).name],
                              !.pc = "writeIndex"]]
        /\ UNCHANGED << dispVars, committed, storeVars, codecVars, auxVars >>

\* updateFileIndex on what it read: the identifier is added and the file is
\* written, or the file that did not parse is repaired
WriteIndexFile ==
    \E id \in TaskIds :
        /\ tasks[id].pc = "writeIndex"
        /\ SetWorld(updateFileIndexData(World, ConcHandle, ConcColl,
                        Head(tasks[id].indexes).name, tasks[id].index,
                        TaskDoc(id), TaskDoc(id), FALSE).w)
        /\ tasks' = [tasks EXCEPT ![id] = NextIndex(@)]
        /\ UNCHANGED << isConnected, collections, lastOp, dispVars, committed,
                        codecVars, auxVars >>

NextOverlap ==
    \/ InsertCall
    \/ LoadData
    \/ OpenFile
    \/ WriteFile
    \/ ListIndexes
    \/ ReadIndexFile
    \/ WriteIndexFile

SpecOverlap == InitOverlap /\ [][NextOverlap]_vars

\* the insertOne calls made so far
InsertCalls == {id \in TaskIds : tasks[id].pc # "none"}

\* the data file holds the document of every call made
AllInDataFile ==
    \A id \in InsertCalls :
        \E i \in 1..Len(Documents(ConcColl)) :
            Documents(ConcColl)[i][F_id] = TaskDoc(id)[F_id]

\* index file n lists the identifier of d under the composite key of d
ListedUnderKey(n, d) ==
    /\ indexFiles[ConcColl][n].kind = "bson"
    /\ getDocumentIndexKey(d, indexFiles[ConcColl][n].metadata.fields)
          \in DOMAIN indexFiles[ConcColl][n].data
    /\ IdString(d) \in SeqToSet(indexFiles[ConcColl][n].data[
           getDocumentIndexKey(d, indexFiles[ConcColl][n].metadata.fields)])

\* C36: when the insertOne calls have all returned and the data file holds
\* the document of each (no write of the data file has lost another), every
\* index file of the collection lists each identifier under its composite key
C36_IndexPhaseOverlap ==
    (/\ Cardinality(InsertCalls) >= 2
     /\ \A id \in InsertCalls : tasks[id].pc = "respond" /\ ~tasks[id].threw
     /\ AllInDataFile)
    => \A n \in DOMAIN indexFiles[ConcColl] :
          \A id \in InsertCalls : ListedUnderKey(n, TaskDoc(id))


\* the identifiers the cache set of index n of collection c holds under key
CacheIds(c, n, key) ==
    {e[4] : e \in {x \in redisSets : x[1] = c /\ x[2] = n /\ x[3] = key}}

\* the identifiers index file n of collection c lists under key
FileIds(c, n, key) ==
    IF indexFiles[c][n].kind = "bson" /\ key \in DOMAIN indexFiles[c][n].data
    THEN SeqToSet(indexFiles[c][n].data[key])
    ELSE {}

\* the composite keys either backend has for index n of collection c
BackendKeys(c, n) ==
    {e[3] : e \in {x \in redisSets : x[1] = c /\ x[2] = n}} \cup
    (IF indexFiles[c][n].kind = "bson" THEN DOMAIN indexFiles[c][n].data ELSE {})

\* C37: while the cache server answers (every Database opened is connected to
\* it) and no operation is in progress, for every index file of every
\* collection and every composite key, the cache set holds the identifiers
\* that the file lists under the key
C37_BackendsAgree ==
    redisUp
    => \A c \in dirs :
          \A n \in DOMAIN indexFiles[c] :
              \A key \in BackendKeys(c, n) : CacheIds(c, n, key) = FileIds(c, n, key)


\* the update documents of the specifications: $set, $unset, $inc and $push,
\* on the fields age, tags and _id
OperatorUpdates == Updates \cup IdxUpdates \cup IdUpdates

\* C39: for every stored document and every update document, applyUpdate
\* leaves the document it is given as it was, so that the composite key of
\* the old document, in every index file of the collection, is the key the
\* document had before the update
C39_ApplyUpdateKeepsArgument ==
    \A i \in 1..Len(Documents(IdxColl)) :
        \A u \in OperatorUpdates :
            /\ applyUpdate(Documents(IdxColl)[i], u).doc = Documents(IdxColl)[i]
            /\ \A n \in DOMAIN indexFiles[IdxColl] :
                  indexFiles[IdxColl][n].kind = "bson"
                  => getDocumentIndexKey(applyUpdate(Documents(IdxColl)[i], u).doc,
                                         indexFiles[IdxColl][n].metadata.fields)
                       = getDocumentIndexKey(Documents(IdxColl)[i],
                                             indexFiles[IdxColl][n].metadata.fields)


(***************************************************************************)
(* SpecStart: the manager while start() runs and after it: tasks are       *)
(* submitted at any time.  A worker that fails before it reports ready     *)
(* ("failed": its 'error' event rejects the createWorker promise, or it    *)
(* exits and the promise is never settled) ends start() without a return.  *)
(* lastOp is start() once it has returned; taskCall is the last task       *)
(* submitted and where it ran.  A behaviour has MaxSubmits tasks at most.  *)
(***************************************************************************)
MaxSubmits == 2

\* the 'error' or 'exit' event of a worker that has not reported ready
StartError ==
    \E w \in WorkerIds :
        /\ threads[w] = "starting"
        /\ threads' = [threads EXCEPT ![w] = "failed"]
        /\ UNCHANGED << workers, taskId, pendingTasks, inbox, outbox, outcome,
                        stopped, storeVars, concVars, codecVars, auxVars >>

\* start() returns: at once with threadCount <= 1, otherwise when the last
\* createWorker promise it awaits is resolved, which the 'ready' handler does
StartReturn ==
    /\ lastOp.op # "start"
    /\ IF ThreadCount <= 1 THEN TRUE
       ELSE \A w \in WorkerIds : threads[w] \in {"running", "errored", "exited"}
    /\ lastOp' = Op("start", "", FALSE)
    /\ UNCHANGED << dirs, dataFile, indexFiles, redisIndexes, redisSets, oidCount,
                    isConnected, collections, dispVars, concVars, codecVars, auxVars >>

\* the record of a task submitted
Submitted(type, where, settled) ==
    [taskCall EXCEPT !.type = type, !.where = where, !.outcome = settled,
                     !.steps = @ + 1]

\* executeTask(type, data) at any time: run directly without workers (no
\* task id is taken); otherwise the id, the worker by id % workers.size, and
\* either the message posted or, with no such worker in the map, run directly
SubmitTask ==
    \E type \in TaskTypes, ok \in BOOLEAN :
        /\ taskCall.steps < MaxSubmits
        /\ IF ThreadCount <= 1 \/ workers = {}
           THEN /\ taskCall' = Submitted(type, "direct", Direct(type, ok))
                /\ UNCHANGED << taskId, pendingTasks, inbox, outcome, routed >>
           ELSE /\ taskId' = taskId + 1
                /\ routed' = Append(routed,
                       [id |-> taskId,
                        worker |-> IF (taskId % Cardinality(workers)) \in workers
                                   THEN taskId % Cardinality(workers) ELSE -1,
                        live |-> workers])
                /\ IF (taskId % Cardinality(workers)) \in workers
                   THEN /\ pendingTasks' = pendingTasks \cup {taskId}
                        /\ inbox' = [inbox EXCEPT ![taskId % Cardinality(workers)] =
                                        Append(@, [type |-> type, id |-> taskId])]
                        /\ taskCall' = Submitted(type, "worker", "pending")
                        /\ UNCHANGED outcome
                   ELSE /\ outcome' = [outcome EXCEPT ![taskId] =
                                          Append(@, Direct(type, ok))]
                        /\ taskCall' = Submitted(type, "direct", Direct(type, ok))
                        /\ UNCHANGED << pendingTasks, inbox >>
        /\ UNCHANGED << threads, workers, outbox, stopped, storeVars, concVars,
                        codecVars, queryCall, indexCall, redisUp, dropped, databases,
                        closeCall, writeCall >>

NextStart ==
    \/ CreateWorker
    \/ Ready
    \/ StartError
    \/ StartReturn
    \/ SubmitTask
    \/ HandleMessage
    \/ Message
    \/ WorkerExit

SpecStart == InitDisp /\ [][NextStart]_vars

\* worker w has reported ready
ReportedReady(w) == threads[w] \in {"running", "errored", "exited"}

\* a message is posted to worker w by the step
PostedTo(w) == Len(inbox'[w]) > Len(inbox[w])

\* a task is submitted by the step
SubmitStep == taskCall'.steps = taskCall.steps + 1

\* C40: a task is posted only to a worker that has reported ready; start()
\* has returned only when every configured worker has reported ready; and a
\* task submitted while no worker is ready is run directly and settled, with
\* nothing queued for a worker and no promise left pending for it
C40_ReadyBeforeTasks ==
    /\ [](lastOp.op = "start" => \A w \in WorkerIds : ReportedReady(w))
    /\ [][\A w \in WorkerIds : PostedTo(w) => (ReportedReady(w) /\ w \in workers)]_vars
    /\ [][(SubmitStep /\ workers = {})
             => /\ taskCall'.where = "direct"
                /\ taskCall'.outcome \in {"resolved", "rejected"}
                /\ UNCHANGED << inbox, pendingTasks >>]_vars

\* a task was submitted while a worker was starting and none was ready, and
\* it ran directly
C40_Witness ==
    /\ taskCall.where = "direct"
    /\ workers = {}
    /\ \E w \in WorkerIds : threads[w] = "starting"
    /\ \A w \in WorkerIds : threads[w] \in {"none", "starting"}
====
